---- MODULE Spec2Model ----
(***************************************************************************)
(* EthHook (ethhook-c): the circuit breaker, the delivery HTTP client and  *)
(* the ClickHouse batch writer, modelled as state machines.                *)
(*                                                                         *)
(* Every atomic operation of the C code (atomic_load, atomic_store,        *)
(* atomic_fetch_add, atomic_compare_exchange_strong, a mutex acquisition)  *)
(* is one step of the calling thread; purely thread-local computation is   *)
(* folded into the preceding step.                                         *)
(***************************************************************************)
EXTENDS Integers, Sequences, FiniteSets, TLC

----------------------------------------------------------------------------
(* Bounds of the model *)

\* number of caller threads sharing one breaker / one batch
NumThreads == 4
\* largest attempt number passed to retry_calculate_delay
MaxAttempt == 8
\* the base delays tried are base_delay_ms * 1..MaxBaseScale
MaxBaseScale == 2
\* the multipliers tried are backoff_multiplier..MaxMultiplier
MaxMultiplier == 3
\* distance between two jitter values tried, in percent
JitterStep == 5
\* retry policy of delivery_ctx_create
base_delay_ms == 1000
max_delay_ms == 60000
backoff_multiplier == 2
\* the jitter of retry_calculate_delay lies within -25 % .. +25 %
JitterPct == 25
\* number of threads whose atomic steps interleave freely
Racers == 2
\* number of callers that take turns when calls are issued one at a time and
\* the history of calls is recorded
SerialCallers == 2
\* failure_threshold handed to circuit_breaker_init
FailureThreshold == 2
\* timeout_ms handed to circuit_breaker_init
TimeoutMs == 2

\* capacity handed to clickhouse_batch_create
BatchCapacity == 2
\* number of threads that use one batch
BatchThreads == 2
\* number of rows the callers append in a run
MaxRows == 4

\* number of websocket messages the ingestor receives in a run
MaxMessages == 5
\* number of identity tuples (chain_id, block_hash, tx_hash, log_index) the
\* upstream notifications draw from
NumTuples == 2
\* number of records appended to the events stream in a run
MaxEvents == 2
\* largest number of endpoints the matcher returns for an event
MaxEndpoints == 2
\* number of times the processor process dies in a run
MaxCrashes == 1
\* longest topic filter and longest topic list of an event
MaxTopics == 2
\* number of chains endpoints and events belong to
NumChains == 2
\* MAX_PAYLOAD_SIZE of the reassembly buffer, in bytes
MaxPayload == 4
\* largest fragment a message arrives in, in bytes
MaxFragment == 3
\* largest message the upstream sends, in bytes
MaxMessageBytes == 5
\* number of times the ingestor worker calls ws_connection_start in a run
MaxStarts == 4
\* width of size_t and of an address, in bits
WordBits == 6
\* capacity of the arena, in pages
ArenaPages == 1
\* number of calls made on the arena in a run
MaxArenaCalls == 3
\* longest string duplicated into the arena
MaxStrLen == 2
\* default alignment of arena allocations
ARENA_DEFAULT_ALIGN == 8
\* handles in the column-store connection pool
pool_size == 2
\* threads calling clickhouse_query
NumQueryThreads == 3
\* rows in the endpoints table
NumStoredRows == 2
\* default of ingestor.reconnect_delay_ms
reconnect_delay_ms == 5000
\* the delay is doubled while it is below 60 seconds
reconnect_delay_limit == 60000

\* the monotonic clock runs over 0..MaxTime: room for two full open periods
MaxTime == 2 * TimeoutMs + 1

Threads == 1..NumThreads

Writers == 1..BatchThreads

----------------------------------------------------------------------------
(* Program constants *)

CB_STATE_CLOSED == 0
CB_STATE_OPEN == 1
CB_STATE_HALF_OPEN == 2

\* cb->half_open_max_calls, fixed by circuit_breaker_init
half_open_max_calls == 3

\* b->timeout_ms, fixed by clickhouse_batch_create ("1 second auto-flush")
batch_timeout_ms == 1000

\* the instants of the monotonic clock (ms) the batch is observed at: around
\* one timeout after creation, and two timeouts after it
TimePoints ==
    {0, batch_timeout_ms - 1, batch_timeout_ms, batch_timeout_ms + 1,
     2 * batch_timeout_ms}

\* HTTP status codes a completed request may carry (one of each class the
\* delivery policy tells apart)
StatusCodes == {200, 301, 404, 408, 429, 500}

\* results of curl_easy_perform
CurlResults == {"CURLE_OK", "CURLE_OPERATION_TIMEDOUT", "CURLE_COULDNT_CONNECT"}

\* what curl_easy_perform can produce: a transport failure, or a response
Outcomes ==
    {[res |-> r, status |-> 0] : r \in CurlResults \ {"CURLE_OK"}}
        \cup {[res |-> "CURLE_OK", status |-> s] : s \in StatusCodes}

----------------------------------------------------------------------------
VARIABLES
    \* circuit_breaker_t
    cb_state,            \* atomic_int state
    failure_count,       \* atomic_uint_fast64_t failure_count
    success_count,       \* atomic_uint_fast64_t success_count
    last_failure_time,   \* atomic_uint_fast64_t last_failure_time
    \* CLOCK_MONOTONIC in milliseconds
    clock,
    \* per thread: position in the code and the locals of the running call
    pc,
    l_state,             \* cb_state_t state  (local of allow/success/failure)
    l_now,               \* uint64_t now      (local of allow/failure)
    l_cnt,               \* uint64_t success  (local of allow, half-open case)
    l_att,               \* client->circuit_breaker != NULL for the running post
    \* per thread: the answer of its last circuit_breaker_allow, until the
    \* request it covers has recorded its outcome
    permit,
    \* how the callers are scheduled, fixed by the specification:
    \*   callers: how many threads use the breaker,
    \*   atomic:  calls are issued one at a time (as by the one worker thread
    \*            per breaker of the ingestor) instead of racing step by step,
    \*   record:  the history of calls is recorded in hist
    sched,
    hist,
    \* struct clickhouse_batch
    batch_count,         \* size_t count
    batch_items,         \* void **items: slot -> row (0: NULL)
    is_event_batch,      \* bool is_event_batch
    batch_lock,          \* pthread_mutex_t lock: the holder, 0 when free
    last_flush,          \* struct timespec last_flush, in ms
    \* clickhouse_client_t counters and the table behind it
    batches_flushed,     \* atomic_uint_fast64_t batches_flushed
    rows_inserted,       \* atomic_uint_fast64_t rows_inserted
    store,               \* rows the column store has accepted
    \* CLOCK_MONOTONIC in ms, as the batch code reads it
    batch_now,
    \* items[capacity] or a later slot has been written
    batch_overflow,
    \* rows handed to the append calls so far
    next_row,
    \* per writer thread: position, and the locals of the running call
    bpc,
    bl,
    \* the heap: rows copied by an append (malloc) and not freed since
    heap,
    \* free(batch) has run
    batch_freed,
    \* the rows that were buffered when clickhouse_batch_destroy was entered
    at_destroy,
    \* ws_connection_t counters and the session (ingestor/websocket.c)
    events_received,     \* atomic_uint_fast64_t events_received
    events_published,    \* atomic_uint_fast64_t events_published
    ing_errors,          \* atomic_uint_fast64_t errors
    subscribed,          \* bool session->subscribed
    \* per identity tuple: how many publishes the ingestor has counted for it
    published_of,
    \* the events stream: records appended, records handed to a plain XREAD,
    \* and the pending entries of a consumer group (filled by group reads)
    ev_stream,
    ev_read,
    ev_pending,
    \* the processor (processor/redis_consumer.c): position in
    \* on_redis_message / process_event and its locals
    ppc,
    p_ev,                \* the event being processed (0: none)
    p_k,                 \* endpoint_count
    p_i,                 \* loop index i
    \* per event: endpoint_count once process_event has returned, else -1
    ev_match,
    \* rows clickhouse_batch_add_event has stored for the processor
    ev_rows,
    crashes,
    \* the deliveries stream: jobs appended, jobs handed to the delivery
    \* service; the rows of its deliveries batch
    dl_stream,
    dl_read,
    delivery_rows,
    \* delivery/retry.c: the policy and the last call of retry_calculate_delay
    retry_policy,        \* retry_policy_t of the delivery context
    retry_called,        \* retry_calculate_delay has been called
    retry_attempt,       \* its argument attempt
    retry_jitter,        \* the jitter it drew, in percent
    retry_unjittered,    \* its local delay before the jitter is applied
    retry_delay,         \* the value it returned
    \* processor/filter.c: one endpoint and the last call of filter_matches
    f_endpoint,          \* endpoint_t: chain_id, address, topics
    f_event,             \* event_t: chain_id, contract_address, topics
    f_topics,            \* what topics_match did, "none" when it was not called
    f_result,            \* what filter_matches did, "none" before the call
    \* ingestor/websocket.c: ws_session_data_t, and the upstream's messages
    buffer_len,          \* size_t buffer_len
    buffer_clean,        \* buffer holds the bytes received of the message on
                         \* the wire and nothing else
    u_kind,              \* kind of the message on the wire, "none" between two
    u_size,              \* bytes of it sent so far
    u_msgs,              \* messages begun
    u_good,              \* well-formed notifications within the size limit
                         \* sent completely
    \* ingestor/main.c, ingestor/worker.c: the main thread and one worker
    ing_running,         \* g_running of the ingestor
    imain,               \* where main is: "wait", "join", "exited"
    w_running,           \* worker->running
    wpc,                 \* where the worker is: "loop", "service", "sleep",
                         \* "stopped"
    w_err,               \* what ws_connection_start returned
    w_link,              \* the connection: "none", "connecting", "up", "down"
    w_delay,             \* the local delay of the worker loop
    w_failures,          \* failed connection attempts since the last
                         \* established connection
    w_wait,              \* the last usleep: after which failure, how long
    w_starts,            \* calls of ws_connection_start
    \* processor/main.c, delivery/main.c: the main threads
    svc_running,         \* g_running of each service
    spc,                 \* where main is: "dispatch", "wait", "stopping",
                         \* "exited"
    ctx_running,         \* ctx->running
    svc_flushed,         \* the batch writer was flushed by the destroy
    d_worker,            \* the delivery workers: "running", "stopped"
    \* common/arena.c: struct arena, and the last call made on it
    a_cursor,            \* uint8_t *cursor, as an address
    a_num,               \* size_t num_allocations
    a_peak,              \* size_t peak_usage
    a_calls,             \* calls made
    a_last,              \* the last call: its arguments, what it returned and
                         \* the arena as it was before
    a_regions,           \* the regions handed out since the last reset, in
                         \* the order of the calls
    \* common/clickhouse.c: the connection pool and the clickhouse_query calls
    in_use,              \* connections[i].in_use
    pool_lock,           \* pool_lock: 0 or the thread that holds it
    qpc,                 \* where each thread is in clickhouse_query
    q_curl,              \* its local curl: a handle, 0 for NULL
    q_res,               \* what curl_easy_perform returned to it
    q_ret,               \* what its last clickhouse_query returned
    q_free,              \* the handles that were free when it scanned the pool
    \* processor/matcher.c: the endpoints table and the last lookup
    m_table,             \* the rows of the endpoints table, by rowid
    m_event,             \* the event looked up
    m_ret,               \* what matcher_find_endpoints returned
    m_found,             \* the rows whose endpoints it handed back
    m_complete,          \* no allocation failed during the lookup
    \* processor_ctx_create and delivery_ctx_create
    c_pc,                \* the step each is at
    c_held,              \* the resources each has acquired and not released
    c_ret,               \* what each returned
    c_ctx                \* whether each has set *ctx

cbVars == <<cb_state, failure_count, success_count, last_failure_time>>
thVars == <<pc, l_state, l_now, l_cnt, l_att, permit>>
breakerVars == <<cbVars, clock, thVars, sched, hist>>
batchVars ==
    <<batch_count, batch_items, is_event_batch, batch_lock, last_flush,
      batches_flushed, rows_inserted, store, batch_now, batch_overflow,
      next_row, bpc, bl, heap, batch_freed, at_destroy>>
destroyVars == <<batch_freed, at_destroy>>
ingVars ==
    <<events_received, events_published, ing_errors, subscribed, published_of>>
queueVars == <<ev_stream, ev_read, ev_pending>>
procVars == <<ppc, p_ev, p_k, p_i, ev_match, ev_rows, crashes>>
retryVars ==
    <<retry_policy, retry_called, retry_attempt, retry_jitter,
      retry_unjittered, retry_delay>>
dlvVars == <<dl_stream, dl_read, delivery_rows, retryVars>>
pipelineVars == <<ingVars, queueVars, procVars, dlvVars>>
filterVars == <<f_endpoint, f_event, f_topics, f_result>>
\* the state of the functions that are modelled call by call
workerVars ==
    <<ing_running, imain, w_running, wpc, w_err, w_link, w_delay, w_failures,
      w_wait, w_starts>>
svcVars == <<svc_running, spc, ctx_running, svc_flushed, d_worker>>
arenaVars == <<a_cursor, a_num, a_peak, a_calls, a_last, a_regions>>
poolVars == <<in_use, pool_lock, qpc, q_curl, q_res, q_ret, q_free>>
\* the common library's arena and connection pool
matcherVars == <<m_table, m_event, m_ret, m_found, m_complete>>
createVars == <<c_pc, c_held, c_ret, c_ctx>>
commonVars == <<arenaVars, poolVars, matcherVars, createVars>>
libVars == <<filterVars, workerVars, svcVars, commonVars>>
\* the websocket session's reassembly buffer and the message on the wire
sessVars == <<buffer_len, buffer_clean, u_kind, u_size, u_msgs, u_good>>
\* what a step of the breaker and its callers leaves alone
otherThanBreaker == <<batchVars, pipelineVars, libVars, sessVars>>
\* what a step on the batch buffer leaves alone
otherThanBatch == <<breakerVars, pipelineVars, libVars, sessVars>>
vars == <<breakerVars, batchVars, pipelineVars, libVars, sessVars>>

----------------------------------------------------------------------------------------------------------------------------------------------
(* History of completed calls (recorded when sched.record).  It is         *)
(* written by the first and last step of a call and never read by the      *)
(* program.                                                                *)

NoSnap == <<CB_STATE_CLOSED, 0, 0, 0>>

NoPost ==
    [done |-> FALSE, att |-> FALSE, res |-> "none", status |-> 0, ret |-> "none",
     snap |-> NoSnap, ns |-> 0, nf |-> 0]

NoHist ==
    [consec |-> 0,        \* failures recorded in closed since the last success
     hoSucc |-> 0,        \* successes recorded since half-open was entered
     lastFailAt |-> -1,   \* clock of the last circuit_breaker_failure
     hoFailAt |-> -1,     \* clock of the last failure recorded in half-open
     post |-> NoPost]     \* the running / last completed http_client_post:
                          \* its outcome, the breaker as it was when the call
                          \* began (snap), the breaker updates it has made

RecAllowBegin ==
    IF ~sched.record THEN hist ELSE [hist EXCEPT !.post = NoPost]

RecAllow(pre, post) ==
    IF ~sched.record THEN hist
    ELSE [hist EXCEPT
            !.hoSucc = IF pre # CB_STATE_HALF_OPEN /\ post = CB_STATE_HALF_OPEN
                       THEN 0 ELSE @]

RecSuccess(pre) ==
    IF ~sched.record THEN hist
    ELSE [hist EXCEPT
            !.consec = 0,
            !.hoSucc = IF pre = CB_STATE_HALF_OPEN THEN @ + 1 ELSE @,
            !.post.ns = @ + 1,
            !.post.snap = NoSnap,
            !.post.done = TRUE]

RecFailure(pre) ==
    IF ~sched.record THEN hist
    ELSE [hist EXCEPT
            !.consec = IF pre = CB_STATE_CLOSED THEN @ + 1 ELSE 0,
            !.lastFailAt = clock,
            !.hoFailAt = IF pre = CB_STATE_HALF_OPEN THEN clock ELSE @,
            !.post.nf = @ + 1,
            !.post.snap = NoSnap,
            !.post.done = TRUE]

RecPostBegin(att) ==
    IF ~sched.record THEN hist
    ELSE [hist EXCEPT
            !.post = [NoPost EXCEPT !.att = att,
                        !.snap = <<cb_state, failure_count, success_count,
                                   last_failure_time>>]]

RecOutcome(o, ret, done) ==
    IF ~sched.record THEN hist
    ELSE [hist EXCEPT !.post.res = o.res, !.post.status = o.status,
                      !.post.ret = ret, !.post.done = done,
                      !.post.snap = IF done THEN NoSnap ELSE @]

----------
(* Callers *)

\* thread t may start a call: it is one of the callers, and when calls are
\* issued one at a time no other call is running
CanStart(t) ==
    /\ t <= sched.callers
    /\ sched.atomic => \A u \in Threads \ {t} : pc[u] = "idle"

\* a permit granted while the breaker is half-open is a probe of that
\* half-open period: it stops being one when the state word leaves half-open
Demoted(newState) ==
    IF cb_state = CB_STATE_HALF_OPEN /\ newState # CB_STATE_HALF_OPEN
    THEN [u \in Threads |-> IF permit[u] = "probe" THEN "other" ELSE permit[u]]
    ELSE permit

\* the running call of thread t returns: its locals die, p is the new permit map
Return(t, p) ==
    /\ pc' = [pc EXCEPT ![t] = "idle"]
    /\ l_state' = [l_state EXCEPT ![t] = CB_STATE_CLOSED]
    /\ l_now' = [l_now EXCEPT ![t] = 0]
    /\ l_cnt' = [l_cnt EXCEPT ![t] = 0]
    /\ l_att' = [l_att EXCEPT ![t] = FALSE]
    /\ permit' = p

\* circuit_breaker_allow returns ret to thread t; post is the state word then
AllowReturn(t, ret, post) ==
    /\ Return(t, [permit EXCEPT ![t] =
                    IF ~ret THEN "none"
                    ELSE IF post = CB_STATE_HALF_OPEN THEN "probe" ELSE "other"])
    /\ hist' = RecAllow(l_state[t], post)

\* circuit_breaker_success / circuit_breaker_failure returns inside
\* http_client_post, which returns in turn: the request has its outcome
OutcomeReturn(t, newState) ==
    Return(t, [u \in Threads |-> IF u = t THEN "none" ELSE Demoted(newState)[u]])

Goto(t, label) == pc' = [pc EXCEPT ![t] = label]

----------------------------------------------------------------------------
(* circuit_breaker.c *)

\* mutant: the open period lasts one millisecond too long
TimeoutElapsedStrict(now, last_failure) ==
    IF now >= last_failure THEN now - last_failure > TimeoutMs ELSE TRUE

\* now - last_failure >= cb->timeout_ms, in uint64_t arithmetic: when the
\* clock value read is older than the stored failure time the difference wraps
\* to more than any uint32_t timeout
TimeoutElapsed(now, last_failure) ==
    IF now >= last_failure THEN now - last_failure >= TimeoutMs ELSE TRUE

\* mutant: the breaker trips one failure late
ThresholdReachedLate(failures) == failures > FailureThreshold

\* failures >= cb->failure_threshold
ThresholdReached(failures) == failures >= FailureThreshold

\* mutant: the breaker closes one probe success late
ProbesDoneLate(success) == success > half_open_max_calls

\* success >= cb->half_open_max_calls
ProbesDone(success) == success >= half_open_max_calls

\* (success + failure) < cb->half_open_max_calls
ProbeBudgetLeft(success, failure) == success + failure < half_open_max_calls

\* the time circuit_breaker_failure stores as last_failure_time
FailureStamp(now) == now

\* mutant: a failed probe leaves the breaker half-open
StateAfterProbeFailureStuck == CB_STATE_HALF_OPEN

\* the state circuit_breaker_failure stores when it read half-open
StateAfterProbeFailure == CB_STATE_OPEN

\* --- bool circuit_breaker_allow(cb) ---

allow_load_state(t) ==
    /\ pc[t] = "idle" /\ permit[t] = "none" /\ CanStart(t)
    /\ l_state' = [l_state EXCEPT ![t] = cb_state]
    /\ Goto(t, "allow_now")
    /\ hist' = RecAllowBegin
    /\ UNCHANGED <<cbVars, clock, l_now, l_cnt, l_att, permit, sched>>
    /\ UNCHANGED otherThanBreaker

allow_get_time(t) ==
    /\ pc[t] = "allow_now"
    /\ IF l_state[t] = CB_STATE_CLOSED
       THEN AllowReturn(t, TRUE, cb_state)
       ELSE /\ l_now' = [l_now EXCEPT ![t] = clock]
            /\ Goto(t, IF l_state[t] = CB_STATE_OPEN THEN "allow_last"
                                                     ELSE "allow_succ")
            /\ UNCHANGED <<l_state, l_cnt, l_att, permit, hist>>
    /\ UNCHANGED <<cbVars, clock, sched>>
    /\ UNCHANGED otherThanBreaker

allow_load_last_failure(t) ==
    /\ pc[t] = "allow_last"
    /\ IF TimeoutElapsed(l_now[t], last_failure_time)
       THEN /\ Goto(t, "allow_cas")
            /\ UNCHANGED <<l_state, l_now, l_cnt, l_att, permit, hist>>
       ELSE AllowReturn(t, FALSE, cb_state)
    /\ UNCHANGED <<cbVars, clock, sched>>
    /\ UNCHANGED otherThanBreaker

allow_cas_half_open(t) ==
    /\ pc[t] = "allow_cas"
    /\ IF cb_state = l_state[t]
       THEN /\ cb_state' = CB_STATE_HALF_OPEN
            /\ Goto(t, "allow_rst_s")
            /\ UNCHANGED <<l_state, l_now, l_cnt, l_att, permit, hist>>
       ELSE /\ AllowReturn(t, FALSE, cb_state)
            /\ UNCHANGED cb_state
    /\ UNCHANGED <<failure_count, success_count, last_failure_time, clock, sched>>
    /\ UNCHANGED otherThanBreaker

allow_reset_success(t) ==
    /\ pc[t] = "allow_rst_s"
    /\ success_count' = 0
    /\ Goto(t, "allow_rst_f")
    /\ UNCHANGED <<cb_state, failure_count, last_failure_time, clock,
                   l_state, l_now, l_cnt, l_att, permit, sched, hist>>
    /\ UNCHANGED otherThanBreaker

allow_reset_failure(t) ==
    /\ pc[t] = "allow_rst_f"
    /\ failure_count' = 0
    /\ AllowReturn(t, TRUE, cb_state)
    /\ UNCHANGED <<cb_state, success_count, last_failure_time, clock, sched>>
    /\ UNCHANGED otherThanBreaker

allow_load_success(t) ==
    /\ pc[t] = "allow_succ"
    /\ l_cnt' = [l_cnt EXCEPT ![t] = success_count]
    /\ Goto(t, "allow_fail")
    /\ UNCHANGED <<cbVars, clock, l_state, l_now, l_att, permit, sched, hist>>
    /\ UNCHANGED otherThanBreaker

allow_load_failure(t) ==
    /\ pc[t] = "allow_fail"
    /\ AllowReturn(t, ProbeBudgetLeft(l_cnt[t], failure_count), cb_state)
    /\ UNCHANGED <<cbVars, clock, sched>>
    /\ UNCHANGED otherThanBreaker

circuit_breaker_allow(t) ==
    \/ allow_load_state(t)
    \/ allow_get_time(t)
    \/ allow_load_last_failure(t)
    \/ allow_cas_half_open(t)
    \/ allow_reset_success(t)
    \/ allow_reset_failure(t)
    \/ allow_load_success(t)
    \/ allow_load_failure(t)

\* --- void circuit_breaker_success(cb) ---

success_load_state(t) ==
    /\ pc[t] = "succ_load"
    /\ IF cb_state = CB_STATE_OPEN
       THEN /\ OutcomeReturn(t, cb_state)
            /\ hist' = RecSuccess(cb_state)
       ELSE /\ l_state' = [l_state EXCEPT ![t] = cb_state]
            /\ Goto(t, IF cb_state = CB_STATE_HALF_OPEN THEN "succ_add"
                                                        ELSE "succ_rst")
            /\ UNCHANGED <<l_now, l_cnt, l_att, permit, hist>>
    /\ UNCHANGED <<cbVars, clock, sched>>
    /\ UNCHANGED otherThanBreaker

success_fetch_add(t) ==
    /\ pc[t] = "succ_add"
    /\ success_count' = success_count + 1
    /\ IF ProbesDone(success_count + 1)
       THEN /\ Goto(t, "succ_close")
            /\ UNCHANGED <<l_state, l_now, l_cnt, l_att, permit, hist>>
       ELSE /\ OutcomeReturn(t, cb_state)
            /\ hist' = RecSuccess(l_state[t])
    /\ UNCHANGED <<cb_state, failure_count, last_failure_time, clock, sched>>
    /\ UNCHANGED otherThanBreaker

success_store_closed(t) ==
    /\ pc[t] = "succ_close"
    /\ cb_state' = CB_STATE_CLOSED
    /\ permit' = Demoted(CB_STATE_CLOSED)
    /\ Goto(t, "succ_clr_f")
    /\ UNCHANGED <<failure_count, success_count, last_failure_time, clock,
                   l_state, l_now, l_cnt, l_att, sched, hist>>
    /\ UNCHANGED otherThanBreaker

success_clear_failure(t) ==
    /\ pc[t] = "succ_clr_f"
    /\ failure_count' = 0
    /\ Goto(t, "succ_clr_s")
    /\ UNCHANGED <<cb_state, success_count, last_failure_time, clock,
                   l_state, l_now, l_cnt, l_att, permit, sched, hist>>
    /\ UNCHANGED otherThanBreaker

success_clear_success(t) ==
    /\ pc[t] = "succ_clr_s"
    /\ success_count' = 0
    /\ OutcomeReturn(t, cb_state)
    /\ hist' = RecSuccess(l_state[t])
    /\ UNCHANGED <<cb_state, failure_count, last_failure_time, clock, sched>>
    /\ UNCHANGED otherThanBreaker

success_reset_failure(t) ==
    /\ pc[t] = "succ_rst"
    /\ failure_count' = 0
    /\ OutcomeReturn(t, cb_state)
    /\ hist' = RecSuccess(l_state[t])
    /\ UNCHANGED <<cb_state, success_count, last_failure_time, clock, sched>>
    /\ UNCHANGED otherThanBreaker

circuit_breaker_success(t) ==
    \/ success_load_state(t)
    \/ success_fetch_add(t)
    \/ success_store_closed(t)
    \/ success_clear_failure(t)
    \/ success_clear_success(t)
    \/ success_reset_failure(t)

\* --- void circuit_breaker_failure(cb) ---

failure_load_state(t) ==
    /\ pc[t] = "fail_load"
    /\ l_state' = [l_state EXCEPT ![t] = cb_state]
    /\ Goto(t, "fail_now")
    /\ UNCHANGED <<cbVars, clock, l_now, l_cnt, l_att, permit, sched, hist>>
    /\ UNCHANGED otherThanBreaker

failure_get_time(t) ==
    /\ pc[t] = "fail_now"
    /\ l_now' = [l_now EXCEPT ![t] = clock]
    /\ Goto(t, "fail_stamp")
    /\ UNCHANGED <<cbVars, clock, l_state, l_cnt, l_att, permit, sched, hist>>
    /\ UNCHANGED otherThanBreaker

failure_store_time(t) ==
    /\ pc[t] = "fail_stamp"
    /\ last_failure_time' = FailureStamp(l_now[t])
    /\ IF l_state[t] = CB_STATE_OPEN
       THEN /\ OutcomeReturn(t, cb_state)
            /\ hist' = RecFailure(l_state[t])
       ELSE /\ Goto(t, IF l_state[t] = CB_STATE_HALF_OPEN THEN "fail_open"
                                                          ELSE "fail_add")
            /\ UNCHANGED <<l_state, l_now, l_cnt, l_att, permit, hist>>
    /\ UNCHANGED <<cb_state, failure_count, success_count, clock, sched>>
    /\ UNCHANGED otherThanBreaker

failure_store_open(t) ==
    /\ pc[t] = "fail_open"
    /\ cb_state' = StateAfterProbeFailure
    /\ permit' = Demoted(StateAfterProbeFailure)
    /\ Goto(t, "fail_clr_f")
    /\ UNCHANGED <<failure_count, success_count, last_failure_time, clock,
                   l_state, l_now, l_cnt, l_att, sched, hist>>
    /\ UNCHANGED otherThanBreaker

failure_clear_failure(t) ==
    /\ pc[t] = "fail_clr_f"
    /\ failure_count' = 0
    /\ Goto(t, "fail_clr_s")
    /\ UNCHANGED <<cb_state, success_count, last_failure_time, clock,
                   l_state, l_now, l_cnt, l_att, permit, sched, hist>>
    /\ UNCHANGED otherThanBreaker

failure_clear_success(t) ==
    /\ pc[t] = "fail_clr_s"
    /\ success_count' = 0
    /\ OutcomeReturn(t, cb_state)
    /\ hist' = RecFailure(l_state[t])
    /\ UNCHANGED <<cb_state, failure_count, last_failure_time, clock, sched>>
    /\ UNCHANGED otherThanBreaker

failure_fetch_add(t) ==
    /\ pc[t] = "fail_add"
    /\ failure_count' = failure_count + 1
    /\ IF ThresholdReached(failure_count + 1)
       THEN /\ Goto(t, "fail_trip")
            /\ UNCHANGED <<l_state, l_now, l_cnt, l_att, permit, hist>>
       ELSE /\ OutcomeReturn(t, cb_state)
            /\ hist' = RecFailure(l_state[t])
    /\ UNCHANGED <<cb_state, success_count, last_failure_time, clock, sched>>
    /\ UNCHANGED otherThanBreaker

failure_trip(t) ==
    /\ pc[t] = "fail_trip"
    /\ cb_state' = CB_STATE_OPEN
    /\ OutcomeReturn(t, CB_STATE_OPEN)
    /\ hist' = RecFailure(l_state[t])
    /\ UNCHANGED <<failure_count, success_count, last_failure_time, clock, sched>>
    /\ UNCHANGED otherThanBreaker

circuit_breaker_failure(t) ==
    \/ failure_load_state(t)
    \/ failure_get_time(t)
    \/ failure_store_time(t)
    \/ failure_store_open(t)
    \/ failure_clear_failure(t)
    \/ failure_clear_success(t)
    \/ failure_fetch_add(t)
    \/ failure_trip(t)

----------------------------------------------------------------------------
(* delivery/http_client.c *)

\* mutant: the upper end of the 2xx test is missing
IsSuccessStatusNoUpper(status) == status >= 200

\* status >= 200 && status < 300
IsSuccessStatus(status) == status >= 200 /\ status < 300

\* which breaker update http_client_post makes for an outcome of
\* curl_easy_perform, when a breaker is attached to the client
BreakerUpdate(o) ==
    IF o.res # "CURLE_OK" THEN "failure"
    ELSE IF IsSuccessStatus(o.status) THEN "success"
    ELSE "failure"

\* the eth_error_t http_client_post returns
PostResult(o) ==
    IF o.res # "CURLE_OK"
    THEN IF o.res = "CURLE_OPERATION_TIMEDOUT" THEN "ETH_ERROR_TIMEOUT"
                                               ELSE "ETH_ERROR_HTTP"
    ELSE IF IsSuccessStatus(o.status) THEN "ETH_OK" ELSE "ETH_ERROR_HTTP"

\* http_client_post up to curl_easy_perform: the handle is reset, URL, body,
\* headers, timeouts and redirect limit are set, and the request goes out.
\* Nothing on this path reads the breaker.  att: the client has one attached.
http_post_begin(t) ==
    /\ pc[t] = "idle" /\ CanStart(t)
    /\ \E att \in BOOLEAN :
        /\ l_att' = [l_att EXCEPT ![t] = att]
        /\ hist' = RecPostBegin(att)
    /\ Goto(t, "perform")
    /\ UNCHANGED <<cbVars, clock, l_state, l_now, l_cnt, permit, sched>>
    /\ UNCHANGED otherThanBreaker

\* curl_easy_perform returns with outcome o; http_client_post classifies it
http_post_perform(t) ==
    /\ pc[t] = "perform"
    /\ \E o \in Outcomes :
        IF l_att[t]
        THEN /\ Goto(t, IF BreakerUpdate(o) = "success" THEN "succ_load"
                                                         ELSE "fail_load")
             /\ hist' = RecOutcome(o, PostResult(o), FALSE)
             /\ UNCHANGED <<l_state, l_now, l_cnt, l_att, permit>>
        ELSE /\ Return(t, [permit EXCEPT ![t] = "none"])
             /\ hist' = RecOutcome(o, PostResult(o), TRUE)
    /\ UNCHANGED <<cbVars, clock, sched>>
    /\ UNCHANGED otherThanBreaker

http_client_post(t) ==
    \/ http_post_begin(t)
    \/ http_post_perform(t)

----------------------------------------------------------------------------
(* The monotonic clock advances.  A breaker call takes no time on the      *)
(* millisecond clock when calls are issued one at a time; a request does.        *)

Tick ==
    /\ clock < MaxTime
    /\ sched.atomic => \A t \in Threads : pc[t] \in {"idle", "perform"}
    /\ clock' = clock + 1
    /\ UNCHANGED <<cbVars, thVars, sched, hist>>
    /\ UNCHANGED otherThanBreaker

----------------------------------------------------------------------------------------------------------------------------------------------
(* circuit_breaker_init, http_client_init *)

InitBreaker ==
    /\ cb_state = CB_STATE_CLOSED
    /\ failure_count = 0
    /\ success_count = 0
    /\ last_failure_time = 0
    /\ clock = 0
    /\ pc = [t \in Threads |-> "idle"]
    /\ l_state = [t \in Threads |-> CB_STATE_CLOSED]
    /\ l_now = [t \in Threads |-> 0]
    /\ l_cnt = [t \in Threads |-> 0]
    /\ l_att = [t \in Threads |-> FALSE]
    /\ permit = [t \in Threads |-> "none"]
    /\ hist = NoHist

NextBreaker ==
    \/ \E t \in Threads : circuit_breaker_allow(t)
    \/ \E t \in Threads : http_client_post(t)
    \/ \E t \in Threads : circuit_breaker_success(t)
    \/ \E t \in Threads : circuit_breaker_failure(t)
    \/ Tick

----------------------------------------------------------------------------
(* common/clickhouse.c: the batch buffer *)

Slots == 0..(BatchCapacity - 1)

\* the rows buffered: items[0 .. count-1]
Buffered == {batch_items[i] : i \in {j \in Slots : j < batch_count}}

\* elapsed_ms >= batch->timeout_ms
FlushDue(now, last) == now - last >= batch_timeout_ms

\* batch->count >= batch->capacity
BatchFull(count) == count >= BatchCapacity

\* the count clickhouse_batch_flush leaves after clickhouse_query returned
\* err: "Clear batch" comes after both branches of the if
CountAfterInsert(err, count) == 0

NoLocals == [op |-> "none", row |-> 0, err |-> "none"]

\* the batch can be used: it has not been freed and its owner is not inside
\* clickhouse_batch_destroy
BatchOpen == ~batch_freed /\ \A u \in Writers : bl[u].op # "destroy"

\* the running call of t returns ret; bl[t].err keeps it for the caller
BatchReturn(t, ret) ==
    /\ bpc' = [bpc EXCEPT ![t] = "idle"]
    /\ bl' = [bl EXCEPT ![t] = [NoLocals EXCEPT !.err = ret]]

BatchGoto(t, label) == bpc' = [bpc EXCEPT ![t] = label]

\* items[count++] = row; the mutex is released and ETH_OK returned.  When
\* count has reached capacity the store lands past the end of items.
AppendRow(t) ==
    /\ IF batch_count \in Slots
       THEN /\ batch_items' = [batch_items EXCEPT ![batch_count] = bl[t].row]
            /\ UNCHANGED batch_overflow
       ELSE /\ batch_overflow' = TRUE
            /\ UNCHANGED batch_items
    /\ batch_count' = batch_count + 1
    /\ heap' = heap \cup {bl[t].row}
    /\ batch_lock' = 0
    /\ BatchReturn(t, "ETH_OK")

\* malloc for the deep copy fails: unlock, return ETH_ERROR_MEMORY
AppendNoMemory(t) ==
    /\ batch_lock' = 0
    /\ BatchReturn(t, "ETH_ERROR_MEMORY")
    /\ UNCHANGED <<batch_count, batch_items, batch_overflow, heap>>

\* clickhouse_batch_add_event / clickhouse_batch_add_delivery are entered and
\* take the mutex
add_lock(t) ==
    /\ bpc[t] = "idle" /\ batch_lock = 0 /\ next_row < MaxRows
    /\ BatchOpen
    /\ \E op \in {"add_event", "add_delivery"} :
        bl' = [bl EXCEPT ![t] = [op |-> op, row |-> next_row + 1, err |-> "none"]]
    /\ next_row' = next_row + 1
    /\ batch_lock' = t
    /\ BatchGoto(t, "add_check")
    /\ UNCHANGED <<batch_count, batch_items, is_event_batch, last_flush,
                   batches_flushed, rows_inserted, store, batch_now,
                   batch_overflow, heap>>
    /\ ~batch_overflow
    /\ UNCHANGED destroyVars
    /\ UNCHANGED otherThanBatch

\* under the mutex: is_event_batch is set and the auto-flush test made; either
\* the mutex is dropped for a flush, or the row is copied and stored
add_check(t) ==
    /\ bpc[t] = "add_check"
    /\ is_event_batch' = (bl[t].op = "add_event")
    /\ IF (BatchFull(batch_count) \/ FlushDue(batch_now, last_flush))
            /\ batch_count > 0
       THEN /\ batch_lock' = 0
            /\ BatchGoto(t, "flush_peek")
            /\ UNCHANGED <<batch_count, batch_items, batch_overflow, bl, heap>>
       ELSE \E ok \in BOOLEAN : IF ok THEN AppendRow(t) ELSE AppendNoMemory(t)
    /\ UNCHANGED <<last_flush, batches_flushed, rows_inserted, store,
                   batch_now, next_row>>
    /\ ~batch_overflow
    /\ UNCHANGED destroyVars
    /\ UNCHANGED otherThanBatch

\* clickhouse_batch_flush returns err to its caller: a manual flush is over;
\* add_event gives up on an error, add_delivery ignores it; both otherwise
\* go on to take the mutex again
FlushReturn(t, err) ==
    IF bl[t].op = "flush" \/ (bl[t].op = "add_event" /\ err # "ETH_OK")
    THEN BatchReturn(t, err)
    ELSE /\ BatchGoto(t, IF bl[t].op = "destroy" THEN "destroy_free"
                                                ELSE "add_relock")
         /\ bl' = [bl EXCEPT ![t].err = err]

\* the values an unlocked read of batch->count by t can return: the stored
\* value, and, while another thread is inside its critical section, also the
\* value that thread is about to store (the read races with that write)
CountSeenBy(t) ==
    {batch_count} \cup
    {IF bpc[u] = "flush_body" THEN 0 ELSE batch_count + 1 :
        u \in {w \in Writers \ {t} :
                 batch_lock = w /\ bpc[w] \in {"flush_body", "add_check",
                                               "add_append"}}}

\* clickhouse_batch_flush, the test before the mutex: batch->count == 0,
\* read without the mutex
flush_peek(t, manual) ==
    /\ IF manual THEN bpc[t] = "idle" /\ BatchOpen ELSE bpc[t] = "flush_peek"
    /\ LET me == IF manual THEN [NoLocals EXCEPT !.op = "flush"] ELSE bl[t]
       IN \E seen \in CountSeenBy(t) :
            IF seen = 0
            THEN IF me.op = "flush"
                 THEN BatchReturn(t, "ETH_OK")
                 ELSE /\ BatchGoto(t, IF me.op = "destroy" THEN "destroy_free"
                                                          ELSE "add_relock")
                      /\ bl' = [bl EXCEPT ![t].err = "ETH_OK"]
            ELSE /\ BatchGoto(t, "flush_lock")
                 /\ bl' = [bl EXCEPT ![t] = me]
    /\ UNCHANGED <<batch_count, batch_items, is_event_batch, batch_lock,
                   last_flush, batches_flushed, rows_inserted, store,
                   batch_now, batch_overflow, next_row, heap>>
    /\ ~batch_overflow
    /\ UNCHANGED destroyVars
    /\ UNCHANGED otherThanBatch

flush_lock(t) ==
    /\ bpc[t] = "flush_lock" /\ batch_lock = 0
    /\ batch_lock' = t
    /\ BatchGoto(t, "flush_body")
    /\ UNCHANGED <<batch_count, batch_items, is_event_batch, last_flush,
                   batches_flushed, rows_inserted, store, batch_now,
                   batch_overflow, next_row, bl, heap>>
    /\ ~batch_overflow
    /\ UNCHANGED destroyVars
    /\ UNCHANGED otherThanBatch

\* under the mutex: nothing to do when the batch is empty; else the INSERT
\* is built (malloc may fail) and run by clickhouse_query, which answers
\* ETH_OK or ETH_ERROR; then the batch is cleared and the mutex released
flush_body(t) ==
    /\ bpc[t] = "flush_body"
    /\ batch_lock' = 0
    /\ IF batch_count = 0
       THEN /\ FlushReturn(t, "ETH_OK")
            /\ UNCHANGED <<batch_count, last_flush, batches_flushed,
                           rows_inserted, store>>
       ELSE \E err \in {"ETH_ERROR_MEMORY", "ETH_OK", "ETH_ERROR"} :
            /\ FlushReturn(t, err)
            /\ IF err = "ETH_ERROR_MEMORY"
               THEN UNCHANGED <<batch_count, last_flush, batches_flushed,
                                rows_inserted, store>>
               ELSE /\ IF err = "ETH_OK"
                       THEN /\ batches_flushed' = batches_flushed + 1
                            /\ rows_inserted' = rows_inserted + batch_count
                            /\ store' = store \cup Buffered
                       ELSE UNCHANGED <<batches_flushed, rows_inserted, store>>
                    /\ batch_count' = CountAfterInsert(err, batch_count)
                    /\ last_flush' = batch_now
    /\ UNCHANGED <<batch_items, is_event_batch, batch_now, batch_overflow,
                   next_row, heap>>
    /\ ~batch_overflow
    /\ UNCHANGED destroyVars
    /\ UNCHANGED otherThanBatch

clickhouse_batch_flush(t) ==
    \/ flush_peek(t, TRUE)
    \/ flush_peek(t, FALSE)
    \/ flush_lock(t)
    \/ flush_body(t)

\* after the flush the append takes the mutex again
add_relock(t) ==
    /\ bpc[t] = "add_relock" /\ batch_lock = 0
    /\ batch_lock' = t
    /\ BatchGoto(t, "add_append")
    /\ UNCHANGED <<batch_count, batch_items, is_event_batch, last_flush,
                   batches_flushed, rows_inserted, store, batch_now,
                   batch_overflow, next_row, bl, heap>>
    /\ ~batch_overflow
    /\ UNCHANGED destroyVars
    /\ UNCHANGED otherThanBatch

\* the row is copied and stored without looking at count again
add_append(t) ==
    /\ bpc[t] = "add_append"
    /\ \E ok \in BOOLEAN : IF ok THEN AppendRow(t) ELSE AppendNoMemory(t)
    /\ UNCHANGED <<is_event_batch, last_flush, batches_flushed, rows_inserted,
                   store, batch_now, next_row>>
    /\ ~batch_overflow
    /\ UNCHANGED destroyVars
    /\ UNCHANGED otherThanBatch

clickhouse_batch_add(t) ==
    \/ add_lock(t)
    \/ add_check(t)
    \/ add_relock(t)
    \/ add_append(t)

\* clickhouse_batch_destroy is entered by the owner of the batch once no
\* other call is running: pending rows are handed to clickhouse_batch_flush,
\* whose result is not looked at
destroy_begin(t) ==
    /\ \A u \in Writers : bpc[u] = "idle"
    /\ BatchOpen
    /\ at_destroy' = Buffered
    /\ bl' = [bl EXCEPT ![t] = [NoLocals EXCEPT !.op = "destroy"]]
    /\ BatchGoto(t, IF batch_count > 0 THEN "flush_peek" ELSE "destroy_free")
    /\ UNCHANGED <<batch_count, batch_items, is_event_batch, batch_lock,
                   last_flush, batches_flushed, rows_inserted, store,
                   batch_now, batch_overflow, next_row, heap, batch_freed>>
    /\ ~batch_overflow
    /\ UNCHANGED otherThanBatch

\* the rows the batch still counts, items[0 .. count-1], are freed, then the
\* items array and the batch itself
destroy_free(t) ==
    /\ bpc[t] = "destroy_free"
    /\ heap' = heap \ Buffered
    /\ batch_freed' = TRUE
    /\ BatchReturn(t, "none")
    /\ UNCHANGED <<batch_count, batch_items, is_event_batch, batch_lock,
                   last_flush, batches_flushed, rows_inserted, store,
                   batch_now, batch_overflow, next_row, at_destroy>>
    /\ ~batch_overflow
    /\ UNCHANGED otherThanBatch

clickhouse_batch_destroy(t) ==
    \/ destroy_begin(t)
    \/ destroy_free(t)

\* the monotonic clock moves on to a later instant
BatchTick ==
    /\ \E later \in {p \in TimePoints : p > batch_now} : batch_now' = later
    /\ UNCHANGED <<batch_count, batch_items, is_event_batch, batch_lock,
                   last_flush, batches_flushed, rows_inserted, store,
                   batch_overflow, next_row, bpc, bl, heap>>
    /\ ~batch_overflow
    /\ UNCHANGED destroyVars
    /\ UNCHANGED otherThanBatch

\* clickhouse_batch_create
InitBatch ==
    /\ batch_count = 0
    /\ batch_items = [i \in Slots |-> 0]
    /\ is_event_batch = FALSE
    /\ batch_lock = 0
    /\ last_flush = 0
    /\ batches_flushed = 0
    /\ rows_inserted = 0
    /\ store = {}
    /\ batch_now = 0
    /\ batch_overflow = FALSE
    /\ next_row = 0
    /\ bpc = [t \in Writers |-> "idle"]
    /\ bl = [t \in Writers |-> NoLocals]
    /\ heap = {}
    /\ batch_freed = FALSE
    /\ at_destroy = {}

\* a store past the end of items is undefined behaviour: every step of the
\* batch is guarded by ~batch_overflow, the model stops there and nothing is
\* claimed about what follows
NextBatch ==
    \/ \E t \in Writers : clickhouse_batch_add(t)
    \/ \E t \in Writers : clickhouse_batch_flush(t)
    \/ \E t \in Writers : clickhouse_batch_destroy(t)
    \/ BatchTick

----------------------------------------------------------------------------
(* ingestor/websocket.c: ws_callback, LWS_CALLBACK_CLIENT_RECEIVE *)

Tuples == 1..NumTuples

\* a complete message with a string "result": the subscription is confirmed
ws_receive_confirmation ==
    /\ subscribed' = TRUE
    /\ UNCHANGED <<events_received, events_published, ing_errors,
                   published_of>>
    /\ UNCHANGED <<queueVars, procVars, dlvVars, breakerVars, libVars, batchVars>>

\* a complete "eth_subscription" message whose params.result is an object:
\* events_received is counted; nothing is looked up or remembered about the
\* log's identity and nothing is sent to Redis; when the log could be written
\* out as text (yyjson_val_write) events_published is counted
ws_receive_notification ==
    /\ \E tup \in Tuples, written \in BOOLEAN :
        /\ events_received' = events_received + 1
        /\ IF written
           THEN /\ events_published' = events_published + 1
                /\ published_of' = [published_of EXCEPT ![tup] = @ + 1]
           ELSE UNCHANGED <<events_published, published_of>>
    /\ UNCHANGED <<ing_errors, subscribed>>
    /\ UNCHANGED <<queueVars, procVars, dlvVars, breakerVars, libVars, batchVars>>

\* a complete message that yyjson_read cannot parse: errors is counted
ws_receive_malformed ==
    /\ ing_errors' = ing_errors + 1
    /\ UNCHANGED <<events_received, events_published, subscribed,
                   published_of>>
    /\ UNCHANGED <<queueVars, procVars, dlvVars, breakerVars, libVars, batchVars>>

\* the fragment is neither parsed nor counted
ws_receive_nothing ==
    /\ UNCHANGED ingVars
    /\ UNCHANGED <<queueVars, procVars, dlvVars, breakerVars, libVars, batchVars>>

MessageKinds == {"confirmation", "notification", "malformed"}

\* len > 0 && session->buffer_len + len < MAX_PAYLOAD_SIZE
FragmentFitsAtLimit(len) == len > 0 /\ buffer_len + len <= MaxPayload

FragmentFits(len) == len > 0 /\ buffer_len + len < MaxPayload

\* the message a fragment belongs to: the one on the wire, or a new one
OnWire(kind) == IF u_kind = "none" THEN kind ELSE u_kind
SentBefore == IF u_kind = "none" THEN 0 ELSE u_size
CleanBefore == IF u_kind = "none" THEN buffer_len = 0 ELSE buffer_clean

\* the upstream's side of a fragment of len bytes: it begins or continues a
\* message of the given kind and, when final, ends it
Upstream(kind, len, final) ==
    /\ u_kind = "none" => u_msgs < MaxMessages
    /\ SentBefore + len <= MaxMessageBytes
    /\ u_msgs' = IF u_kind = "none" THEN u_msgs + 1 ELSE u_msgs
    /\ u_kind' = IF final THEN "none" ELSE OnWire(kind)
    /\ u_size' = IF final THEN 0 ELSE SentBefore + len
    /\ u_good' = IF /\ final
                    /\ OnWire(kind) = "notification"
                    /\ SentBefore + len < MaxPayload
                 THEN u_good + 1
                 ELSE u_good

\* LWS_CALLBACK_CLIENT_RECEIVE with a fragment that does not fit: nothing is
\* copied, parsed, counted or reset, whether or not the fragment is final
ws_receive_dropped(kind, len, final) ==
    /\ ~FragmentFits(len)
    /\ Upstream(kind, len, final)
    /\ buffer_clean' = FALSE
    /\ UNCHANGED buffer_len
    /\ ws_receive_nothing

\* a fragment that fits and is not the final one is appended
ws_receive_partial(kind, len) ==
    /\ FragmentFits(len)
    /\ Upstream(kind, len, FALSE)
    /\ buffer_len' = buffer_len + len
    /\ buffer_clean' = CleanBefore
    /\ ws_receive_nothing

\* the final fragment fits: the buffer is parsed as one JSON text and
\* emptied; it is the message sent only if it holds that message alone
ws_receive_final(kind, len) ==
    /\ FragmentFits(len)
    /\ Upstream(kind, len, TRUE)
    /\ buffer_len' = 0
    /\ buffer_clean' = TRUE
    /\ IF ~CleanBefore \/ OnWire(kind) = "malformed"
       THEN ws_receive_malformed
       ELSE IF OnWire(kind) = "notification"
       THEN ws_receive_notification
       ELSE ws_receive_confirmation

ws_callback ==
    \E kind \in MessageKinds, len \in 1..MaxFragment :
        \/ \E final \in BOOLEAN : ws_receive_dropped(kind, len, final)
        \/ ws_receive_partial(kind, len)
        \/ ws_receive_final(kind, len)

InitIngestor ==
    /\ events_received = 0
    /\ events_published = 0
    /\ ing_errors = 0
    /\ subscribed = FALSE
    /\ published_of = [tup \in Tuples |-> 0]
    /\ buffer_len = 0
    /\ buffer_clean = TRUE
    /\ u_kind = "none"
    /\ u_size = 0
    /\ u_msgs = 0
    /\ u_good = 0

----------------------------------------------------------------------------
(* processor/redis_consumer.c: on_redis_message, process_event *)

Events == 1..MaxEvents

\* the analytical row of event e for its i-th matched endpoint
RowOf(e, i) == e * (MaxEndpoints + 1) + i

\* the event a row belongs to
EventOfRow(r) == r \div (MaxEndpoints + 1)

ProcLocals == <<p_ev, p_k, p_i>>

\* a record is appended to the events stream (XADD events:...)
EventArrives ==
    /\ Cardinality(ev_stream) < MaxEvents
    /\ ev_stream' = ev_stream \cup {Cardinality(ev_stream) + 1}
    /\ UNCHANGED <<ev_read, ev_pending>>
    /\ UNCHANGED <<ingVars, procVars, dlvVars, breakerVars, libVars, sessVars, batchVars>>

\* the records a read of the events stream can hand to the processor: those
\* not handed out before, and the pending entries of its consumer group
Readable == (ev_stream \ ev_read) \cup ev_pending

\* the reply to "XREAD BLOCK 1000 STREAMS events:* >" arrives with event e.
\* matcher_find_endpoints answers k endpoints (0 also stands for an error):
\* with none, process_event is over and the read is issued again
on_redis_message ==
    /\ ppc = "wait"
    /\ \E e \in Readable, k \in 0..MaxEndpoints :
        /\ ev_read' = ev_read \cup {e}
        /\ IF k = 0
           THEN /\ ev_match' = [ev_match EXCEPT ![e] = 0]
                /\ UNCHANGED <<ppc, ProcLocals>>
           ELSE /\ ppc' = "rows"
                /\ p_ev' = e /\ p_k' = k /\ p_i' = 0
                /\ UNCHANGED ev_match
    /\ UNCHANGED <<ev_stream, ev_pending, ev_rows, crashes>>
    /\ UNCHANGED <<ingVars, dlvVars, breakerVars, libVars, sessVars, batchVars>>

\* the flush results clickhouse_batch_add_event can meet: none when no
\* auto-flush is due
FlushResults ==
    IF (BatchFull(batch_count) \/ FlushDue(batch_now, last_flush))
        /\ batch_count > 0
    THEN {"ETH_ERROR_MEMORY", "ETH_OK", "ETH_ERROR"}
    ELSE {"none"}

\* clickhouse_batch_add_event(proc_ctx->event_batch, &ch_event) as the
\* processor calls it, alone and under proc_ctx->batch_lock: the whole call is
\* one step.  ferr is the result of the auto-flush ("none": no flush), copied
\* whether malloc gave the copy; the row is stored when the flush did not fail
\* and the copy exists
BatchAddEvent(row, ferr, copied) ==
    LET cleared == ferr \in {"ETH_OK", "ETH_ERROR"}
        cnt == IF cleared THEN CountAfterInsert(ferr, batch_count)
                          ELSE batch_count
        stored == ferr \in {"none", "ETH_OK"} /\ copied
    IN  /\ is_event_batch' = TRUE
        /\ IF ferr = "ETH_OK"
           THEN /\ batches_flushed' = batches_flushed + 1
                /\ rows_inserted' = rows_inserted + batch_count
                /\ store' = store \cup Buffered
           ELSE UNCHANGED <<batches_flushed, rows_inserted, store>>
        /\ last_flush' = IF cleared THEN batch_now ELSE last_flush
        /\ IF stored
           THEN /\ batch_items' = [batch_items EXCEPT ![cnt] = row]
                /\ batch_count' = cnt + 1
                /\ heap' = heap \cup {row}
                /\ ev_rows' = ev_rows \cup {row}
           ELSE /\ batch_count' = cnt
                /\ UNCHANGED <<batch_items, heap, ev_rows>>
        /\ UNCHANGED <<batch_lock, batch_now, batch_overflow, next_row, bpc,
                       bl, destroyVars>>

\* process_event, first loop: one clickhouse_batch_add_event per matched
\* endpoint; its return value is not looked at
proc_add_row ==
    /\ ppc = "rows"
    /\ \E ferr \in FlushResults, copied \in BOOLEAN :
        BatchAddEvent(RowOf(p_ev, p_i + 1), ferr, copied)
    /\ IF p_i + 1 < p_k
       THEN p_i' = p_i + 1 /\ UNCHANGED ppc
       ELSE p_i' = 0 /\ ppc' = "jobs"
    /\ UNCHANGED <<p_ev, p_k, ev_match, crashes>>
    /\ UNCHANGED <<ingVars, queueVars, dlvVars, breakerVars, libVars, sessVars>>

\* process_event, second loop: one "XADD deliveries:* * delivery <json>" per
\* matched endpoint, skipped when the JSON could not be written; after the
\* last one process_event returns and on_redis_message issues the next XREAD
proc_add_job ==
    /\ ppc = "jobs"
    /\ \E written \in BOOLEAN :
        dl_stream' = IF written
                     THEN dl_stream \cup {[event |-> p_ev, endpoint |-> p_i + 1]}
                     ELSE dl_stream
    /\ IF p_i + 1 < p_k
       THEN /\ p_i' = p_i + 1
            /\ UNCHANGED <<ppc, p_ev, p_k, ev_match>>
       ELSE /\ ppc' = "wait"
            /\ ev_match' = [ev_match EXCEPT ![p_ev] = p_k]
            /\ p_ev' = 0 /\ p_k' = 0 /\ p_i' = 0
    /\ UNCHANGED <<ev_rows, crashes, dl_read, delivery_rows, retryVars>>
    /\ UNCHANGED <<ingVars, queueVars, breakerVars, libVars, sessVars, batchVars>>

\* the processor dies inside process_event and is started again:
\* processor_ctx_create makes a new empty batch and processor_run issues its
\* XREAD; what the old process held in memory is gone
proc_crash ==
    /\ ppc \in {"rows", "jobs"}
    /\ crashes < MaxCrashes
    /\ crashes' = crashes + 1
    /\ ppc' = "wait"
    /\ p_ev' = 0 /\ p_k' = 0 /\ p_i' = 0
    /\ batch_count' = 0
    /\ batch_items' = [i \in Slots |-> 0]
    /\ last_flush' = batch_now
    /\ heap' = {}
    /\ UNCHANGED <<ev_match, ev_rows>>
    /\ UNCHANGED <<is_event_batch, batch_lock, batches_flushed, rows_inserted,
                   store, batch_now, batch_overflow, next_row, bpc, bl,
                   destroyVars>>
    /\ UNCHANGED <<ingVars, queueVars, dlvVars, breakerVars, libVars, sessVars>>

process_event ==
    \/ proc_add_row
    \/ proc_add_job

InitProcessor ==
    /\ ev_stream = {}
    /\ ev_read = {}
    /\ ev_pending = {}
    /\ ppc = "wait"
    /\ p_ev = 0 /\ p_k = 0 /\ p_i = 0
    /\ ev_match = [e \in Events |-> -1]
    /\ ev_rows = {}
    /\ crashes = 0

----------------------------------------------------------------------------
(* delivery/worker.c: on_delivery_request, delivery_worker *)

\* the reply to "XREAD BLOCK 1000 STREAMS deliveries:* >" arrives with a job:
\* nothing is parsed, queued, posted or recorded, and the read is issued
\* again.  delivery_worker sleeps in its loop and changes no state.
on_delivery_request ==
    /\ \E job \in dl_stream \ dl_read : dl_read' = dl_read \cup {job}
    /\ UNCHANGED <<dl_stream, delivery_rows, retryVars>>
    /\ UNCHANGED <<ingVars, queueVars, procVars, breakerVars, libVars, sessVars, batchVars>>

InitDeliveryQueue ==
    /\ dl_stream = {}
    /\ dl_read = {}
    /\ delivery_rows = {}

----------------------------------------------------------------------------
(* delivery/retry.c: retry_calculate_delay *)

\* the policy delivery_ctx_create installs
DefaultPolicy ==
    [base_delay_ms |-> base_delay_ms, max_delay_ms |-> max_delay_ms,
     backoff_multiplier |-> backoff_multiplier]

\* the policies the function is exercised with: the installed one and its
\* neighbours with a longer base delay or a larger multiplier
Policies ==
    {[base_delay_ms |-> base_delay_ms * s, max_delay_ms |-> max_delay_ms,
      backoff_multiplier |-> m] :
        s \in 1..MaxBaseScale, m \in backoff_multiplier..MaxMultiplier}

Attempts == 0..MaxAttempt

\* ((double)rand() / RAND_MAX) * 0.5 - 0.25, in percent
Jitters == {j \in (0 - JitterPct)..JitterPct : j % JitterStep = 0}

RECURSIVE Pow(_, _)
Pow(b, n) == IF n = 0 THEN 1 ELSE b * Pow(b, n - 1)

\* base_delay_ms * pow(backoff_multiplier, attempt - 1), for attempt > 0
Backoff(policy, attempt) ==
    policy.base_delay_ms * Pow(policy.backoff_multiplier, attempt - 1)

\* the local delay once capped at max_delay_ms
Capped(policy, attempt) ==
    IF Backoff(policy, attempt) > policy.max_delay_ms
    THEN policy.max_delay_ms
    ELSE Backoff(policy, attempt)

\* delay * (1.0 + jitter); the cast to uint64_t at the return truncates
WithJitter(delay, j) == (delay * (100 + j)) \div 100

\* the value returned for attempt > 0: jittered, then raised to base_delay_ms
Floored(policy, delay) ==
    IF delay < policy.base_delay_ms THEN policy.base_delay_ms ELSE delay

\* one call: attempt 0 returns 0 before any delay is computed
retry_calculate_delay(attempt, j) ==
    /\ retry_called' = TRUE
    /\ retry_attempt' = attempt
    /\ retry_jitter' = j
    /\ IF attempt = 0
       THEN /\ retry_unjittered' = 0
            /\ retry_delay' = 0
       ELSE /\ retry_unjittered' = Capped(retry_policy, attempt)
            /\ retry_delay' =
                   Floored(retry_policy,
                           WithJitter(Capped(retry_policy, attempt), j))
    /\ UNCHANGED <<retry_policy, dl_stream, dl_read, delivery_rows>>
    /\ UNCHANGED <<ingVars, queueVars, procVars, breakerVars, libVars, sessVars, batchVars>>

NoRetryCall ==
    /\ retry_called = FALSE
    /\ retry_attempt = 0
    /\ retry_jitter = 0
    /\ retry_unjittered = 0
    /\ retry_delay = 0

InitRetry == retry_policy = DefaultPolicy /\ NoRetryCall

InitDelivery == InitDeliveryQueue /\ InitRetry

InitPipeline == InitIngestor /\ InitProcessor /\ InitDelivery

NextRetry == \E attempt \in Attempts, j \in Jitters :
                 retry_calculate_delay(attempt, j)

NextIngestor == ws_callback

NextPipeline ==
    \/ EventArrives
    \/ on_redis_message
    \/ process_event
    \/ proc_crash
    \/ on_delivery_request
    \/ BatchTick

----------------------------------------------------------------------------
(* processor/filter.c: topics_match, filter_matches *)

\* the null pointer, distinct from every string
NULL == "(NULL)"

ChainIds == 1..NumChains
\* a filter slot: absent, empty, the word null, or a topic in either case
FilterSlots == {NULL, "", "null", "0xab", "0xAB"}
\* a topic of an event; process_event leaves NULL where the JSON element was
\* not a string
EventTopics == {NULL, "0xab", "0xcd"}
EndpointAddresses == {NULL, "0xAA"}
EventAddresses == {"", "0xaa", "0xbb"}

SeqsUpTo(S, n) == UNION {[1..k -> S] : k \in 0..n}

Endpoints ==
    [chain_id : ChainIds, address : EndpointAddresses,
     topics : SeqsUpTo(FilterSlots, MaxTopics)]

FilterEvents ==
    [chain_id : ChainIds, contract_address : EventAddresses,
     topics : SeqsUpTo(EventTopics, MaxTopics)]

\* the endpoint matcher_find_endpoints builds from a row: the topics column
\* is not parsed, the filter is left empty
RowEndpoint == [chain_id |-> 1, address |-> NULL, topics |-> <<>>]

\* the letters strcasecmp folds, on the strings above
Lower(str) ==
    CASE str = "0xAB" -> "0xab"
      [] str = "0xAA" -> "0xaa"
      [] OTHER -> str

\* "NULL filter means any topic": !filter, "" or "null"
IsWildcard(filter) == filter = NULL \/ filter = "" \/ filter = "null"

NoTopicFilter(endpoint_topics) == Len(endpoint_topics) = 0

TooFewTopicsOffByOne(endpoint_topics, event_topics) ==
    Len(event_topics) + 1 < Len(endpoint_topics)

\* num_event_topics < num_endpoint_topics
TooFewTopics(endpoint_topics, event_topics) ==
    Len(event_topics) < Len(endpoint_topics)

\* event_topics[i]; past the end of the array the read is out of bounds
TopicAt(event_topics, i) ==
    IF i <= Len(event_topics) THEN event_topics[i] ELSE NULL

\* one round of the loop: strcasecmp(filter, topic) with a NULL topic is
\* undefined, so the round may crash, reject or go on
SlotOutcomes(filter, topic) ==
    IF IsWildcard(filter) THEN {"continue"}
    ELSE IF topic = NULL THEN {"continue", "return_false", "crash"}
    ELSE IF Lower(filter) = Lower(topic) THEN {"continue"}
    ELSE {"return_false"}

RECURSIVE TopicsFrom(_, _, _)
TopicsFrom(endpoint_topics, event_topics, i) ==
    IF i > Len(endpoint_topics) THEN {"match"}
    ELSE LET outs == SlotOutcomes(endpoint_topics[i],
                                  TopicAt(event_topics, i))
         IN  (IF "continue" \in outs
              THEN TopicsFrom(endpoint_topics, event_topics, i + 1)
              ELSE {})
             \cup (IF "return_false" \in outs THEN {"no_match"} ELSE {})
             \cup (IF "crash" \in outs THEN {"crash"} ELSE {})

\* the outcomes of topics_match
topics_match(endpoint_topics, event_topics) ==
    IF NoTopicFilter(endpoint_topics) THEN {"match"}
    ELSE IF TooFewTopics(endpoint_topics, event_topics) THEN {"no_match"}
    ELSE TopicsFrom(endpoint_topics, event_topics, 1)

ChainRejects(endpoint, event) == endpoint.chain_id # event.chain_id

AddressRejectsUnset(endpoint, event) ==
    /\ event.contract_address # ""
    /\ Lower(endpoint.address) # Lower(event.contract_address)

\* the address is compared only when both sides have one
AddressRejects(endpoint, event) ==
    /\ endpoint.address # NULL
    /\ event.contract_address # ""
    /\ Lower(endpoint.address) # Lower(event.contract_address)

\* one call of filter_matches on the endpoint, for any event
filter_matches(event) ==
    /\ f_result = "none"
    /\ f_event' = event
    /\ IF ChainRejects(f_endpoint, event) \/ AddressRejects(f_endpoint, event)
       THEN /\ f_topics' = "none"
            /\ f_result' = "no_match"
       ELSE \E r \in topics_match(f_endpoint.topics, event.topics) :
                /\ f_topics' = r
                /\ f_result' = r
    /\ UNCHANGED <<f_endpoint, workerVars, svcVars, commonVars>>
    /\ UNCHANGED <<breakerVars, batchVars, pipelineVars, sessVars>>

NoFilterCall ==
    /\ f_event = [chain_id |-> 1, contract_address |-> "", topics |-> <<>>]
    /\ f_topics = "none"
    /\ f_result = "none"

InitFilter == f_endpoint = RowEndpoint /\ NoFilterCall

----------------------------------------------------------------------------
(* ingestor/worker.c, ingestor/websocket.c, ingestor/main.c: the connection *)

\* the connection's breaker, whose calls all come from the worker thread:
\* each call runs from its first load to its return
Breaker ==
    [state |-> cb_state, failure_count |-> failure_count,
     success_count |-> success_count, last_failure_time |-> last_failure_time]

\* the value circuit_breaker_allow returns
Allows(b, now) ==
    CASE b.state = CB_STATE_CLOSED -> TRUE
      [] b.state = CB_STATE_OPEN -> TimeoutElapsed(now, b.last_failure_time)
      [] OTHER -> ProbeBudgetLeft(b.success_count, b.failure_count)

AfterAllow(b, now) ==
    IF b.state = CB_STATE_OPEN /\ TimeoutElapsed(now, b.last_failure_time)
    THEN [b EXCEPT !.state = CB_STATE_HALF_OPEN, !.success_count = 0,
                   !.failure_count = 0]
    ELSE b

AfterSuccess(b) ==
    CASE b.state = CB_STATE_HALF_OPEN ->
            IF ProbesDone(b.success_count + 1)
            THEN [b EXCEPT !.state = CB_STATE_CLOSED, !.failure_count = 0,
                           !.success_count = 0]
            ELSE [b EXCEPT !.success_count = @ + 1]
      [] b.state = CB_STATE_CLOSED -> [b EXCEPT !.failure_count = 0]
      [] OTHER -> b

AfterFailure(b, now) ==
    LET c == [b EXCEPT !.last_failure_time = FailureStamp(now)]
    IN  CASE b.state = CB_STATE_HALF_OPEN ->
                [c EXCEPT !.state = StateAfterProbeFailure,
                          !.failure_count = 0, !.success_count = 0]
          [] b.state = CB_STATE_CLOSED ->
                [c EXCEPT !.failure_count = @ + 1,
                          !.state = IF ThresholdReached(b.failure_count + 1)
                                    THEN CB_STATE_OPEN ELSE @]
          [] OTHER -> c

SetBreaker(b) ==
    /\ cb_state' = b.state
    /\ failure_count' = b.failure_count
    /\ success_count' = b.success_count
    /\ last_failure_time' = b.last_failure_time

\* what no step of the ingestor touches
ingestorFrame ==
    <<clock, thVars, sched, hist, batchVars, queueVars, procVars, dlvVars,
      filterVars, svcVars, commonVars, events_received, events_published,
      published_of, u_msgs, u_good>>

NoWait == [k |-> 0, ms |-> 0]

\* while (worker->running) finds the flag cleared: the thread returns
worker_exit ==
    /\ wpc = "loop" /\ ~w_running
    /\ wpc' = "stopped"
    /\ UNCHANGED <<ing_running, imain, w_running, w_err, w_link, w_delay,
                   w_failures, w_wait, w_starts>>
    /\ UNCHANGED <<cbVars, ing_errors, subscribed, buffer_len, buffer_clean,
                   u_kind, u_size>>
    /\ UNCHANGED ingestorFrame

\* ws_connection_start returns at once: the breaker refuses
start_refused ==
    /\ wpc = "loop" /\ w_running /\ w_starts < MaxStarts
    /\ ~Allows(Breaker, clock)
    /\ SetBreaker(AfterAllow(Breaker, clock))
    /\ w_err' = "circuit_open"
    /\ wpc' = "sleep"
    /\ w_starts' = w_starts + 1
    /\ UNCHANGED <<ing_running, imain, w_running, w_link, w_delay,
                   w_failures, w_wait>>
    /\ UNCHANGED <<ing_errors, subscribed, buffer_len, buffer_clean, u_kind,
                   u_size>>
    /\ UNCHANGED ingestorFrame

\* ws_connection_start returns ETH_ERROR_WEBSOCKET: no context, or
\* lws_client_connect_via_info gave no wsi; the breaker records a failure
start_fails ==
    /\ wpc = "loop" /\ w_running /\ w_starts < MaxStarts
    /\ Allows(Breaker, clock)
    /\ SetBreaker(AfterFailure(AfterAllow(Breaker, clock), clock))
    /\ w_err' = "websocket"
    /\ wpc' = "sleep"
    /\ w_failures' = w_failures + 1
    /\ w_starts' = w_starts + 1
    /\ UNCHANGED <<ing_running, imain, w_running, w_link, w_delay, w_wait>>
    /\ UNCHANGED <<ing_errors, subscribed, buffer_len, buffer_clean, u_kind,
                   u_size>>
    /\ UNCHANGED ingestorFrame

\* ws_connection_start has a wsi and enters the loop around lws_service;
\* the new session's data is zeroed
start_connects ==
    /\ wpc = "loop" /\ w_running /\ w_starts < MaxStarts
    /\ Allows(Breaker, clock)
    /\ SetBreaker(AfterAllow(Breaker, clock))
    /\ wpc' = "service"
    /\ w_link' = "connecting"
    /\ w_starts' = w_starts + 1
    /\ subscribed' = FALSE
    /\ buffer_len' = 0 /\ buffer_clean' = TRUE
    /\ u_kind' = "none" /\ u_size' = 0
    /\ UNCHANGED <<ing_running, imain, w_running, w_err, w_delay,
                   w_failures, w_wait>>
    /\ UNCHANGED ing_errors
    /\ UNCHANGED ingestorFrame

ws_connection_start == start_refused \/ start_fails \/ start_connects

\* LWS_CALLBACK_CLIENT_ESTABLISHED: the subscription is sent, the breaker
\* records a success
ws_established ==
    /\ wpc = "service" /\ w_link = "connecting"
    /\ w_link' = "up"
    /\ SetBreaker(AfterSuccess(Breaker))
    /\ w_failures' = 0
    /\ UNCHANGED <<ing_running, imain, w_running, wpc, w_err, w_delay, w_wait,
                   w_starts>>
    /\ UNCHANGED <<ing_errors, subscribed, buffer_len, buffer_clean, u_kind,
                   u_size>>
    /\ UNCHANGED ingestorFrame

\* LWS_CALLBACK_CLIENT_CONNECTION_ERROR: the breaker records a failure,
\* errors is counted; the callback returns 0 and the loop goes on
ws_connection_error ==
    /\ wpc = "service" /\ w_link = "connecting"
    /\ w_link' = "down"
    /\ SetBreaker(AfterFailure(Breaker, clock))
    /\ ing_errors' = ing_errors + 1
    /\ w_failures' = w_failures + 1
    /\ UNCHANGED <<ing_running, imain, w_running, wpc, w_err, w_delay, w_wait,
                   w_starts>>
    /\ UNCHANGED <<subscribed, buffer_len, buffer_clean, u_kind, u_size>>
    /\ UNCHANGED ingestorFrame

\* LWS_CALLBACK_CLIENT_CLOSED: subscribed is cleared; the callback returns 0
\* and the loop goes on
ws_closed ==
    /\ wpc = "service" /\ w_link = "up"
    /\ w_link' = "down"
    /\ subscribed' = FALSE
    /\ UNCHANGED <<ing_running, imain, w_running, wpc, w_err, w_delay,
                   w_failures, w_wait, w_starts>>
    /\ UNCHANGED <<cbVars, ing_errors, buffer_len, buffer_clean, u_kind,
                   u_size>>
    /\ UNCHANGED ingestorFrame

\* lws_service itself fails (returns a negative value), whatever the state
\* of the connection: the loop ends, ws_connection_start returns ETH_OK
lws_service_fails ==
    /\ wpc = "service"
    /\ wpc' = "loop"
    /\ w_link' = "none"
    /\ w_err' = "ok"
    /\ UNCHANGED <<ing_running, imain, w_running, w_delay, w_failures, w_wait,
                   w_starts>>
    /\ UNCHANGED <<cbVars, ing_errors, subscribed, buffer_len, buffer_clean,
                   u_kind, u_size>>
    /\ UNCHANGED ingestorFrame

DoubledLate(delay) ==
    IF delay <= reconnect_delay_limit THEN delay * 2 ELSE delay

\* if (delay < 60000) delay *= 2
Doubled(delay) ==
    IF delay < reconnect_delay_limit THEN delay * 2 ELSE delay

\* err != ETH_OK: delay is set from the configuration, slept, then doubled
worker_sleep ==
    /\ wpc = "sleep"
    /\ w_wait' = [k |-> IF w_err = "websocket" THEN w_failures ELSE 0,
                  ms |-> reconnect_delay_ms]
    /\ w_delay' = Doubled(reconnect_delay_ms)
    /\ wpc' = "loop"
    /\ UNCHANGED <<ing_running, imain, w_running, w_err, w_link, w_failures,
                   w_starts>>
    /\ UNCHANGED <<cbVars, ing_errors, subscribed, buffer_len, buffer_clean,
                   u_kind, u_size>>
    /\ UNCHANGED ingestorFrame

ingestor_worker_thread == worker_exit \/ ws_connection_start \/ worker_sleep

\* SIGINT or SIGTERM reaches the ingestor: g_running = false
ingestor_signal ==
    /\ ing_running
    /\ ing_running' = FALSE
    /\ UNCHANGED <<imain, w_running, wpc, w_err, w_link, w_delay, w_failures,
                   w_wait, w_starts>>
    /\ UNCHANGED <<cbVars, ing_errors, subscribed, buffer_len, buffer_clean,
                   u_kind, u_size>>
    /\ UNCHANGED ingestorFrame

\* main leaves its wait loop, clears worker->running and calls
\* ws_connection_stop, which does nothing
ingestor_stop ==
    /\ imain = "wait" /\ ~ing_running
    /\ w_running' = FALSE
    /\ imain' = "join"
    /\ UNCHANGED <<ing_running, wpc, w_err, w_link, w_delay, w_failures,
                   w_wait, w_starts>>
    /\ UNCHANGED <<cbVars, ing_errors, subscribed, buffer_len, buffer_clean,
                   u_kind, u_size>>
    /\ UNCHANGED ingestorFrame

\* pthread_join returns once the worker thread has returned; main cleans up
\* and returns 0
ingestor_join ==
    /\ imain = "join" /\ wpc = "stopped"
    /\ imain' = "exited"
    /\ UNCHANGED <<ing_running, w_running, wpc, w_err, w_link, w_delay,
                   w_failures, w_wait, w_starts>>
    /\ UNCHANGED <<cbVars, ing_errors, subscribed, buffer_len, buffer_clean,
                   u_kind, u_size>>
    /\ UNCHANGED ingestorFrame

ingestor_main == ingestor_stop \/ ingestor_join

InitWorker ==
    /\ ing_running = TRUE
    /\ imain = "wait"
    /\ w_running = TRUE
    /\ wpc = "loop"
    /\ w_err = "ok"
    /\ w_link = "none"
    /\ w_delay = 0
    /\ w_failures = 0
    /\ w_wait = NoWait
    /\ w_starts = 0

----------------------------------------------------------------------------
(* processor/main.c, delivery/main.c: start, event loop, shutdown *)

Services == {"processor", "delivery"}

\* what no step of these main threads touches
serviceFrame ==
    <<breakerVars, batchVars, pipelineVars, sessVars, filterVars, workerVars,
      commonVars>>

\* SIGINT or SIGTERM reaches service s: g_running = false
service_signal(s) ==
    /\ svc_running[s]
    /\ svc_running' = [svc_running EXCEPT ![s] = FALSE]
    /\ UNCHANGED <<spc, ctx_running, svc_flushed, d_worker>>
    /\ UNCHANGED serviceFrame

\* event_base_dispatch returns on its own: no event is left to wait for
\* (the Redis connection is gone); processor_run / delivery_run return
dispatch_returns(s) ==
    /\ spc[s] = "dispatch"
    /\ spc' = [spc EXCEPT ![s] = "wait"]
    /\ UNCHANGED <<svc_running, ctx_running, svc_flushed, d_worker>>
    /\ UNCHANGED serviceFrame

\* while (g_running) sleep(1) ends; processor_stop / delivery_stop clear
\* ctx->running and break the event loop
service_stop(s) ==
    /\ spc[s] = "wait" /\ ~svc_running[s]
    /\ ctx_running' = [ctx_running EXCEPT ![s] = FALSE]
    /\ spc' = [spc EXCEPT ![s] = "stopping"]
    /\ UNCHANGED <<svc_running, svc_flushed, d_worker>>
    /\ UNCHANGED serviceFrame

\* delivery_worker finds ctx->running cleared after its usleep and returns
delivery_worker_exit ==
    /\ d_worker = "running" /\ ~ctx_running["delivery"]
    /\ d_worker' = "stopped"
    /\ UNCHANGED <<svc_running, spc, ctx_running, svc_flushed>>
    /\ UNCHANGED serviceFrame

\* delivery_stop has joined the workers; the context is destroyed, which
\* flushes the batch writer, and main returns 0
service_destroy(s) ==
    /\ spc[s] = "stopping"
    /\ s = "delivery" => d_worker = "stopped"
    /\ svc_flushed' = [svc_flushed EXCEPT ![s] = TRUE]
    /\ spc' = [spc EXCEPT ![s] = "exited"]
    /\ UNCHANGED <<svc_running, ctx_running, d_worker>>
    /\ UNCHANGED serviceFrame

service_main(s) == service_stop(s) \/ service_destroy(s)

InitServiceMains ==
    /\ svc_running = [s \in Services |-> TRUE]
    /\ spc = [s \in Services |-> "dispatch"]
    /\ ctx_running = [s \in Services |-> TRUE]
    /\ svc_flushed = [s \in Services |-> FALSE]
    /\ d_worker = "running"

\* the ingestor: its worker, its connection and its main thread
NextReconnect ==
    \/ ingestor_worker_thread
    \/ ws_established
    \/ ws_connection_error
    \/ ws_closed
    \/ lws_service_fails
    \/ ingestor_signal
    \/ ingestor_main
    \/ Tick

\* the three services from start to exit
NextLifecycle ==
    \/ ingestor_worker_thread
    \/ ws_established
    \/ ws_connection_error
    \/ ws_closed
    \/ lws_service_fails
    \/ ingestor_signal
    \/ ingestor_main
    \/ \E s \in Services :
          service_signal(s) \/ dispatch_returns(s) \/ service_main(s)
    \/ delivery_worker_exit
    \/ Tick

\* every thread that can take a step of its own takes one in the end; the
\* network, the signals and the clock owe nothing
FairThreads ==
    /\ WF_vars(ingestor_worker_thread)
    /\ WF_vars(ingestor_main)
    /\ \A s \in Services : WF_vars(service_main(s))
    /\ WF_vars(delivery_worker_exit)

----------------------------------------------------------------------------
(* common/arena.c: arena_alloc, arena_alloc_aligned, arena_strdup,        *)
(* arena_strndup, arena_reset, arena_get_stats                            *)

\* size_t and uintptr_t arithmetic wraps at 2^WordBits
Word == Pow(2, WordBits)
SIZE_MAX == Word - 1
Wrap(n) == n % Word

\* a page of the model
PageSize == 2 * ARENA_DEFAULT_ALIGN

\* arena_create rounds the capacity up to whole pages
ArenaCapacity == ArenaPages * PageSize

\* mmap returns page-aligned memory: the arena starts at the second page
ArenaBase == PageSize
ArenaEnd == ArenaBase + ArenaCapacity

\* the sizes asked for: nothing, a byte, a word and one byte more, the whole
\* arena and one byte more, and the largest values of size_t: the last that
\* still rounds up to a multiple of 8, one that does not, and SIZE_MAX
Sizes ==
    {0, 1, ARENA_DEFAULT_ALIGN, ARENA_DEFAULT_ALIGN + 1,
     ArenaCapacity, ArenaCapacity + 1,
     SIZE_MAX - ARENA_DEFAULT_ALIGN + 1, SIZE_MAX - ARENA_DEFAULT_ALIGN + 3,
     SIZE_MAX}

Alignments == {1, 3, ARENA_DEFAULT_ALIGN, PageSize}

\* ((x) != 0) && (((x) & ((x) - 1)) == 0)
IS_POWER_OF_2(x) == \E k \in 0..(WordBits - 1) : x = Pow(2, k)

\* (((n) + (align) - 1) & ~((align) - 1)) in size_t, align a power of two
ALIGN_UP(n, align) ==
    LET sum == Wrap(n + align - 1) IN sum - (sum % align)

Arena == [cursor |-> a_cursor, num |-> a_num, peak |-> a_peak]

FreshArena == [cursor |-> ArenaBase, num |-> 0, peak |-> 0]

\* (size_t)(arena->end - arena->cursor)
Available(arena) == Wrap(ArenaEnd - arena.cursor + Word)

\* (size_t)(arena->cursor - arena->base)
Usage(cursor) == Wrap(cursor - ArenaBase + Word)

\* the bump: cursor and counters after size bytes are handed out at ptr
Bumped(arena, ptr, size) ==
    LET cursor == Wrap(ptr + size)
    IN  [cursor |-> cursor,
         num |-> Wrap(arena.num + 1),
         peak |-> IF Usage(cursor) > arena.peak
                  THEN Usage(cursor) ELSE arena.peak]

Failed(arena) == [ok |-> FALSE, ptr |-> 0, arena |-> arena]

\* arena_alloc: the pointer returned (ok: not NULL) and the arena afterwards
Alloc(arena, size) ==
    IF size = 0 THEN Failed(arena)
    ELSE LET rounded == ALIGN_UP(size, ARENA_DEFAULT_ALIGN)
         IN  IF rounded > Available(arena) THEN Failed(arena)
             ELSE [ok |-> TRUE, ptr |-> arena.cursor,
                   arena |-> Bumped(arena, arena.cursor, rounded)]

\* arena_alloc_aligned
AllocAligned(arena, size, alignment) ==
    IF size = 0 \/ ~IS_POWER_OF_2(alignment) THEN Failed(arena)
    ELSE LET aligned_addr == ALIGN_UP(arena.cursor, alignment)
             padding == Wrap(aligned_addr - arena.cursor + Word)
             total_size == Wrap(padding + size)
         IN  IF total_size > Available(arena) THEN Failed(arena)
             ELSE [ok |-> TRUE, ptr |-> aligned_addr,
                   arena |-> Bumped(arena, aligned_addr, size)]

ResetCursorKept(cursor) == cursor

\* arena->cursor = arena->base
ResetCursor(cursor) == ArenaBase

ResetClearsPeak(arena) ==
    [cursor |-> ResetCursor(arena.cursor), num |-> 0, peak |-> 0]

\* arena_reset: the counters go back, the peak stays
Reset(arena) ==
    [cursor |-> ResetCursor(arena.cursor), num |-> 0, peak |-> arena.peak]

\* arena_get_stats
arena_get_stats(arena) ==
    [total_capacity |-> ArenaCapacity,
     bytes_used |-> Usage(arena.cursor),
     bytes_available |-> Wrap(ArenaCapacity - Usage(arena.cursor) + Word),
     num_allocations |-> arena.num,
     peak_usage |-> arena.peak]

SetArena(arena) ==
    /\ a_cursor' = arena.cursor
    /\ a_num' = arena.num
    /\ a_peak' = arena.peak

\* a call is made and returns
Returns(op, size, alignment, res) ==
    /\ a_calls' = a_calls + 1
    /\ SetArena(res.arena)
    /\ a_last' = [op |-> op, size |-> size, alignment |-> alignment,
                  ok |-> res.ok, ptr |-> res.ptr, before |-> Arena]
    /\ a_regions' =
          IF op = "reset" THEN <<>>
          ELSE IF op # "can_alloc" /\ res.ok
               THEN Append(a_regions, [ptr |-> res.ptr, size |-> size])
               ELSE a_regions
    /\ UNCHANGED <<filterVars, workerVars, svcVars, poolVars, matcherVars,
                   createVars>>
    /\ UNCHANGED <<breakerVars, batchVars, pipelineVars, sessVars>>

arena_alloc(size) ==
    /\ a_calls < MaxArenaCalls
    /\ Returns("alloc", size, 0, Alloc(Arena, size))

\* arena_calloc: arena_alloc, then size bytes at the pointer are zeroed
arena_calloc(size) ==
    /\ a_calls < MaxArenaCalls
    /\ Returns("calloc", size, 0, Alloc(Arena, size))

arena_alloc_aligned(size, alignment) ==
    /\ a_calls < MaxArenaCalls
    /\ Returns("aligned", size, alignment,
               AllocAligned(Arena, size, alignment))

\* arena_strdup of a string of len characters: arena_alloc(len + 1)
arena_strdup(len) ==
    /\ a_calls < MaxArenaCalls
    /\ Returns("strdup", len + 1, 0, Alloc(Arena, len + 1))

\* arena_strndup of at most n characters of a string of len characters
arena_strndup(len, n) ==
    /\ a_calls < MaxArenaCalls
    /\ LET copied == IF len < n THEN len ELSE n
       IN  Returns("strndup", copied + 1, 0, Alloc(Arena, copied + 1))

arena_reset ==
    /\ a_calls < MaxArenaCalls
    /\ Returns("reset", 0, 0,
               [ok |-> TRUE, ptr |-> 0, arena |-> Reset(Arena)])

\* arena_can_alloc: the answer (ok), the arena as it was
CanAlloc(arena, size) ==
    [ok |-> ALIGN_UP(size, ARENA_DEFAULT_ALIGN) <= Available(arena),
     ptr |-> 0, arena |-> arena]

arena_can_alloc(size) ==
    /\ a_calls < MaxArenaCalls
    /\ Returns("can_alloc", size, 0, CanAlloc(Arena, size))

NoArenaCall ==
    [op |-> "none", size |-> 0, alignment |-> 0, ok |-> FALSE, ptr |-> 0,
     before |-> FreshArena]

\* arena_create
InitArena ==
    /\ a_cursor = ArenaBase
    /\ a_num = 0
    /\ a_peak = 0
    /\ a_calls = 0
    /\ a_last = NoArenaCall
    /\ a_regions = <<>>

NextArena ==
    \/ \E size \in Sizes : arena_alloc(size)
    \/ \E size \in Sizes : arena_calloc(size)
    \/ \E size \in Sizes : arena_can_alloc(size)
    \/ \E size \in Sizes, alignment \in Alignments :
          arena_alloc_aligned(size, alignment)
    \/ \E len \in 0..MaxStrLen : arena_strdup(len)
    \/ \E len \in 0..MaxStrLen, n \in 0..MaxStrLen : arena_strndup(len, n)
    \/ arena_reset

----------------------------------------------------------------------------
(* common/clickhouse.c: get_connection, release_connection,               *)
(* clickhouse_query                                                       *)

Handles == 1..pool_size
QueryThreads == 1..NumQueryThreads

AllHandles == Handles

\* the entries whose in_use the compare-and-swap finds false
FreeHandles == {h \in Handles : ~in_use[h]}

\* the scan takes the first of them
FirstFree == CHOOSE h \in FreeHandles : \A g \in FreeHandles : h <= g

\* the threads that hold handle h between get_connection and the store in
\* release_connection
Holders(h) ==
    {t \in QueryThreads :
        qpc[t] \in {"perform", "release", "store"} /\ q_curl[t] = h}

poolFrame ==
    <<breakerVars, batchVars, pipelineVars, sessVars, filterVars, workerVars,
      svcVars, arenaVars, matcherVars, createVars>>

\* clickhouse_query is called; get_connection takes pool_lock
get_connection_lock(t) ==
    /\ qpc[t] = "idle"
    /\ pool_lock = 0
    /\ pool_lock' = t
    /\ qpc' = [qpc EXCEPT ![t] = "scan"]
    /\ q_ret' = [q_ret EXCEPT ![t] = "none"]
    /\ UNCHANGED <<in_use, q_curl, q_res, q_free, poolFrame>>

\* the scan of the pool: the first free handle is marked and returned; with
\* none free get_connection returns NULL
get_connection_scan(t) ==
    /\ qpc[t] = "scan"
    /\ pool_lock' = 0
    /\ q_free' = [q_free EXCEPT ![t] = {h \in Handles : ~in_use[h]}]
    /\ IF FreeHandles # {}
       THEN /\ in_use' = [in_use EXCEPT ![FirstFree] = TRUE]
            /\ q_curl' = [q_curl EXCEPT ![t] = FirstFree]
            /\ qpc' = [qpc EXCEPT ![t] = "perform"]
       ELSE /\ qpc' = [qpc EXCEPT ![t] = "no_handle"]
            /\ UNCHANGED <<in_use, q_curl>>
    /\ UNCHANGED <<q_res, q_ret, poolFrame>>

\* if (!curl) return ETH_ERROR
query_no_handle(t) ==
    /\ qpc[t] = "no_handle"
    /\ q_ret' = [q_ret EXCEPT ![t] = "ETH_ERROR"]
    /\ q_free' = [q_free EXCEPT ![t] = {}]
    /\ qpc' = [qpc EXCEPT ![t] = "idle"]
    /\ UNCHANGED <<in_use, pool_lock, q_curl, q_res, poolFrame>>

\* curl_easy_perform returns
query_perform(t) ==
    /\ qpc[t] = "perform"
    /\ \E res \in {"CURLE_OK", "CURLE_FAILED"} :
          q_res' = [q_res EXCEPT ![t] = res]
    /\ qpc' = [qpc EXCEPT ![t] = "release"]
    /\ UNCHANGED <<in_use, pool_lock, q_curl, q_ret, q_free, poolFrame>>

\* release_connection takes pool_lock, on the error path and on the other
release_connection_lock(t) ==
    /\ qpc[t] = "release"
    /\ pool_lock = 0
    /\ pool_lock' = t
    /\ qpc' = [qpc EXCEPT ![t] = "store"]
    /\ UNCHANGED <<in_use, q_curl, q_res, q_ret, q_free, poolFrame>>

\* the entry of the handle is marked free
release_connection_store(t) ==
    /\ qpc[t] = "store"
    /\ in_use' = [in_use EXCEPT ![q_curl[t]] = FALSE]
    /\ pool_lock' = 0
    /\ qpc' = [qpc EXCEPT ![t] = "finish"]
    /\ UNCHANGED <<q_curl, q_res, q_ret, q_free, poolFrame>>

\* the rest of clickhouse_query: the HTTP status, the result
query_return(t) ==
    /\ qpc[t] = "finish"
    /\ \E ret \in IF q_res[t] = "CURLE_OK"
                   THEN {"ETH_OK", "ETH_ERROR", "ETH_ERROR_MEMORY"}
                   ELSE {"ETH_ERROR"} :
          q_ret' = [q_ret EXCEPT ![t] = ret]
    /\ q_curl' = [q_curl EXCEPT ![t] = 0]
    /\ q_res' = [q_res EXCEPT ![t] = "none"]
    /\ q_free' = [q_free EXCEPT ![t] = {}]
    /\ qpc' = [qpc EXCEPT ![t] = "idle"]
    /\ UNCHANGED <<in_use, pool_lock, poolFrame>>

clickhouse_query(t) ==
    \/ get_connection_lock(t)
    \/ get_connection_scan(t)
    \/ query_no_handle(t)
    \/ query_perform(t)
    \/ release_connection_lock(t)
    \/ release_connection_store(t)
    \/ query_return(t)

\* clickhouse_client_create
InitPool ==
    /\ in_use = [h \in Handles |-> FALSE]
    /\ pool_lock = 0
    /\ qpc = [t \in QueryThreads |-> "idle"]
    /\ q_curl = [t \in QueryThreads |-> 0]
    /\ q_res = [t \in QueryThreads |-> "none"]
    /\ q_ret = [t \in QueryThreads |-> "none"]
    /\ q_free = [t \in QueryThreads |-> {}]

NextPool == \E t \in QueryThreads : clickhouse_query(t)

----------------------------------------------------------------------------
(* processor/matcher.c: matcher_find_endpoints *)

StoredRowIds == 1..NumStoredRows

\* the topics column of a row: a filter of up to MaxTopics slots, each a
\* wildcard or a topic
StoredFilters == SeqsUpTo({"", "0xab"}, MaxTopics)

StoredRows ==
    [chain_id : ChainIds, enabled : BOOLEAN, address : EndpointAddresses,
     topics : StoredFilters]

MatcherEvents ==
    [chain_id : ChainIds, contract_address : {"", "0xaa"},
     topics : {<<>>, <<"0xab">>, <<"0xcd">>}]

\* WHERE e.chain_id = ? AND e.enabled = 1
Selected(row, event) == row.chain_id = event.chain_id /\ row.enabled

ParsedTopics(row) == row.topics

\* the topics column is read and dropped: ep->topics = NULL, num_topics = 0
LoadedTopics(row) == <<>>

\* the endpoint_t built from a row
LoadedEndpoint(row) ==
    [chain_id |-> row.chain_id, address |-> row.address,
     topics |-> LoadedTopics(row)]

\* filter_matches(ep, event) returns true
Passes(endpoint, event) ==
    /\ ~ChainRejects(endpoint, event)
    /\ ~AddressRejects(endpoint, event)
    /\ "match" \in topics_match(endpoint.topics, event.topics)

\* one lookup: the rows are stepped through in rowid order; a row whose
\* calloc fails is passed over, a failed realloc ends the loop with the
\* endpoints collected so far, a failed sqlite3_step returns an error and
\* no endpoints
matcher_find_endpoints(event) ==
    /\ m_ret = "none"
    /\ m_event' = event
    /\ \E rc \in {"SQLITE_DONE", "SQLITE_ERROR"},
          no_memory \in SUBSET StoredRowIds,
          stepped \in 0..NumStoredRows :
          LET found == {i \in StoredRowIds :
                          /\ i <= stepped
                          /\ i \notin no_memory
                          /\ Selected(m_table[i], event)
                          /\ Passes(LoadedEndpoint(m_table[i]), event)}
          IN  /\ m_complete' = (no_memory = {} /\ stepped = NumStoredRows)
              /\ IF rc = "SQLITE_ERROR"
                 THEN m_ret' = "ETH_ERROR_DATABASE" /\ m_found' = {}
                 ELSE m_ret' = "ETH_OK" /\ m_found' = found
    /\ UNCHANGED <<m_table, arenaVars, poolVars, createVars>>
    /\ UNCHANGED <<filterVars, workerVars, svcVars>>
    /\ UNCHANGED <<breakerVars, batchVars, pipelineVars, sessVars>>

NoLookup ==
    /\ m_event = [chain_id |-> 1, contract_address |-> "", topics |-> <<>>]
    /\ m_ret = "none"
    /\ m_found = {}
    /\ m_complete = TRUE

\* the table holds one enabled address-agnostic endpoint without a filter
InitMatcher ==
    /\ m_table = [i \in StoredRowIds |->
                    [chain_id |-> 1, enabled |-> TRUE, address |-> NULL,
                     topics |-> <<>>]]
    /\ NoLookup

NextMatcher == \E event \in MatcherEvents : matcher_find_endpoints(event)

----------------------------------------------------------------------------
(* processor/redis_consumer.c: processor_ctx_create;                      *)
(* delivery/worker.c: delivery_ctx_create                                 *)

createFrame ==
    <<breakerVars, batchVars, pipelineVars, sessVars, filterVars, workerVars,
      svcVars, arenaVars, poolVars, matcherVars>>

\* what the error path of each step releases before it returns
Cleanup(s, step) ==
    CASE step = "db" -> {"batch_lock", "ctx"}
      [] step = "client" -> {"db", "batch_lock", "ctx"}
      [] step = "batch" -> {"ch_client", "db", "batch_lock", "ctx"}
      [] step = "event_base" /\ s = "processor" ->
            {"matcher", "batch", "ch_client", "db", "batch_lock", "ctx"}
      [] step = "event_base" /\ s = "delivery" ->
            {"batch", "ch_client", "db", "batch_lock", "ctx"}
      [] step = "redis" /\ s = "processor" ->
            {"redis_ctx", "event_base", "matcher", "batch", "ch_client",
             "db", "batch_lock", "ctx"}
      [] step = "redis" /\ s = "delivery" ->
            {"redis_ctx", "event_base", "db", "ctx"}
      [] step = "workers" -> {"redis_ctx", "event_base", "db", "ctx"}
      [] OTHER -> {}

\* a step succeeds: the resource is held, the next step follows
Acquires(s, got, next) ==
    /\ c_held' = [c_held EXCEPT ![s] = @ \cup got]
    /\ c_pc' = [c_pc EXCEPT ![s] = next]
    /\ UNCHANGED <<c_ret, c_ctx>>

\* a step fails: its error path runs and the error is returned
Fails(s, step, got, err) ==
    /\ c_held' = [c_held EXCEPT ![s] = (@ \cup got) \ Cleanup(s, step)]
    /\ c_ret' = [c_ret EXCEPT ![s] = err]
    /\ c_pc' = [c_pc EXCEPT ![s] = "returned"]
    /\ UNCHANGED c_ctx

\* calloc of the context, pthread_mutex_init
ctx_alloc(s) ==
    /\ c_pc[s] = "calloc"
    /\ \/ Acquires(s, {"ctx", "batch_lock"}, "db")
       \/ Fails(s, "calloc", {}, "ETH_ERROR_MEMORY")
    /\ UNCHANGED createFrame

\* eth_db_open
ctx_open_db(s) ==
    /\ c_pc[s] = "db"
    /\ \/ Acquires(s, {"db"}, "client")
       \/ Fails(s, "db", {}, "ETH_ERROR_CONFIG")
    /\ UNCHANGED createFrame

\* clickhouse_client_create
ctx_create_client(s) ==
    /\ c_pc[s] = "client"
    /\ \/ Acquires(s, {"ch_client"}, "batch")
       \/ \E err \in {"ETH_ERROR", "ETH_ERROR_MEMORY"} :
             Fails(s, "client", {}, err)
    /\ UNCHANGED createFrame

\* clickhouse_batch_create; the processor then calls matcher_init, which
\* always returns ETH_OK
ctx_create_batch(s) ==
    /\ c_pc[s] = "batch"
    /\ \/ Acquires(s, IF s = "processor" THEN {"batch", "matcher"}
                                         ELSE {"batch"}, "event_base")
       \/ Fails(s, "batch", {}, "ETH_ERROR_MEMORY")
    /\ UNCHANGED createFrame

\* event_base_new
ctx_event_base(s) ==
    /\ c_pc[s] = "event_base"
    /\ \/ Acquires(s, {"event_base"}, "redis")
       \/ Fails(s, "event_base", {}, "ETH_ERROR")
    /\ UNCHANGED createFrame

\* redisAsyncConnect: a context, a context with err set, or NULL
ctx_redis(s) ==
    /\ c_pc[s] = "redis"
    /\ \/ Acquires(s, {"redis_ctx"},
                    IF s = "delivery" THEN "workers" ELSE "publish")
       \/ \E got \in {{}, {"redis_ctx"}} :
             Fails(s, "redis", got, "ETH_ERROR_REDIS")
    /\ UNCHANGED createFrame

\* delivery only: calloc of the worker thread array
ctx_workers(s) ==
    /\ c_pc[s] = "workers"
    /\ \/ Acquires(s, {"worker_threads"}, "publish")
       \/ Fails(s, "workers", {}, "ETH_ERROR_MEMORY")
    /\ UNCHANGED createFrame

\* *ctx = the context; return ETH_OK
ctx_publish(s) ==
    /\ c_pc[s] = "publish"
    /\ c_ctx' = [c_ctx EXCEPT ![s] = TRUE]
    /\ c_ret' = [c_ret EXCEPT ![s] = "ETH_OK"]
    /\ c_pc' = [c_pc EXCEPT ![s] = "returned"]
    /\ UNCHANGED <<c_held, createFrame>>

ctx_create(s) ==
    \/ ctx_alloc(s)
    \/ ctx_open_db(s)
    \/ ctx_create_client(s)
    \/ ctx_create_batch(s)
    \/ ctx_event_base(s)
    \/ ctx_redis(s)
    \/ ctx_workers(s)
    \/ ctx_publish(s)

\* main has called the function
InitCreate ==
    /\ c_pc = [s \in Services |-> "calloc"]
    /\ c_held = [s \in Services |-> {}]
    /\ c_ret = [s \in Services |-> "none"]
    /\ c_ctx = [s \in Services |-> FALSE]

NextCreate == \E s \in Services : ctx_create(s)

InitCommon == InitArena /\ InitPool /\ InitMatcher /\ InitCreate

InitLib == InitFilter /\ InitWorker /\ InitServiceMains /\ InitCommon

NextFilter == \E event \in FilterEvents : filter_matches(event)

----------------------------------------------------------------------------
(* Specifications *)

Racing == [callers |-> Racers, atomic |-> FALSE, record |-> FALSE]
Serial == [callers |-> SerialCallers, atomic |-> TRUE, record |-> TRUE]
Calls == [callers |-> NumThreads, atomic |-> TRUE, record |-> FALSE]

\* the state after construction, one initial predicate per scheduling
InitServices == InitBreaker /\ InitBatch /\ InitPipeline
Init == InitServices /\ InitLib /\ sched = Racing
InitSeq == InitServices /\ InitLib /\ sched = Serial
InitCalls == InitServices /\ InitLib /\ sched = Calls
\* the state before a lookup, for each content of the endpoints table
InitTables ==
    /\ InitServices
    /\ InitFilter /\ InitWorker /\ InitServiceMains /\ InitArena /\ InitPool
    /\ InitCreate
    /\ m_table \in [StoredRowIds -> StoredRows] /\ NoLookup
    /\ sched = Serial
\* the state before a call of retry_calculate_delay, for each policy
InitPolicies ==
    /\ InitBreaker /\ InitBatch /\ InitIngestor /\ InitProcessor
    /\ InitDeliveryQueue
    /\ retry_policy \in Policies /\ NoRetryCall
    /\ InitLib
    /\ sched = Serial
\* the state before a call of filter_matches, for each endpoint
InitEndpoints ==
    /\ InitServices
    /\ f_endpoint \in Endpoints /\ NoFilterCall
    /\ InitWorker /\ InitServiceMains /\ InitCommon
    /\ sched = Serial

\* the breaker and the HTTP client: the atomic steps of Racers threads
\* interleave freely
Spec == Init /\ [][NextBreaker]_vars

\* the breaker and the HTTP client: SerialCallers callers issue their calls
\* one at a time, in any order; the history of calls is recorded
SpecSeq == InitSeq /\ [][NextBreaker]_vars

\* the breaker and the HTTP client: NumThreads callers issue their calls one
\* at a time, in any order
SpecCalls == InitCalls /\ [][NextBreaker]_vars

\* the batch buffer: BatchThreads threads append and flush with no lock of
\* their own around the calls
SpecBatch == InitSeq /\ [][NextBatch]_vars

\* the ingestor's websocket callback
SpecIngest == InitSeq /\ [][NextIngestor]_vars

\* the pipeline behind the events stream: the processor's event loop with
\* its events batch, and the delivery service's read callback
SpecPipeline == InitSeq /\ [][NextPipeline]_vars

\* retry_calculate_delay, called with any attempt number and any jitter
SpecRetry == InitPolicies /\ [][NextRetry]_vars

\* filter_matches, called once with any endpoint and any event
SpecFilter == InitEndpoints /\ [][NextFilter]_vars

\* one arena and any calls made on it
SpecArena == InitSeq /\ [][NextArena]_vars

\* one lookup of the endpoints of an event, for each content of the table
SpecMatcher == InitTables /\ [][NextMatcher]_vars

\* the processor and the delivery service each creating its context
SpecCreate == InitSeq /\ [][NextCreate]_vars

\* threads querying the column store through one client
SpecPool == InitSeq /\ [][NextPool]_vars

\* the ingestor connecting and reconnecting until it is told to stop; its
\* threads take their next step whenever they have one
SpecReconnect ==
    /\ InitSeq /\ [][NextReconnect]_vars
    /\ WF_vars(ingestor_worker_thread) /\ WF_vars(ingestor_main)

\* the ingestor's worker and the main threads of the three services, from
\* start to exit
SpecLifecycle == InitSeq /\ [][NextLifecycle]_vars /\ FairThreads

----------
(* Steps at which a call returns, and what the claims read off them *)

AllowReturns(t) ==
    /\ pc[t] \in {"allow_now", "allow_last", "allow_cas", "allow_rst_f", "allow_fail"}
    /\ pc'[t] = "idle"

SuccessReturns(t) ==
    /\ pc[t] \in {"succ_load", "succ_add", "succ_clr_s", "succ_rst"}
    /\ pc'[t] = "idle"

FailureReturns(t) ==
    /\ pc[t] \in {"fail_stamp", "fail_clr_s", "fail_add", "fail_trip"}
    /\ pc'[t] = "idle"

\* http_client_post returns: from curl_easy_perform when no breaker is
\* attached, else when the breaker update returns
PostReturns(t) ==
    \/ pc[t] = "perform" /\ pc'[t] = "idle"
    \/ SuccessReturns(t)
    \/ FailureReturns(t)

\* http_client_post hands the request to curl_easy_perform
PostIssued(t) == pc[t] = "idle" /\ pc'[t] = "perform"

\* the breaker state the returning call of t found (calls one at a time)
CallPre(t) == IF pc[t] = "succ_load" THEN cb_state ELSE l_state[t]

\* the allow call that returns in this step answers true
Granted(t) == permit'[t] # "none"

Quiet == \A t \in Threads : pc[t] = "idle"

Probes == {t \in Threads : permit[t] = "probe"}

\* 4xx other than 408 and 429
IsPermanentStatus(status) == status >= 400 /\ status < 500 /\ status \notin {408, 429}

----------------------------------------------------------------------------
(* Claims *)

\* C1: no outbound HTTP request is issued for an endpoint while its breaker
\* is open: http_client_post never hands a request to curl_easy_perform
\* when the breaker attached to the client is in the open state.
C1_NoPostWhileOpen ==
    [][\A t \in Threads :
        PostIssued(t) /\ l_att'[t] => cb_state # CB_STATE_OPEN]_vars

\* C2: from closed, the failure that completes a run of failure_threshold
\* consecutive failures (no success in between) opens the breaker, a failure
\* that leaves the run shorter leaves it closed with the run as its failure
\* count, and a success in closed resets the failure count to zero.
C2_ThresholdOpens ==
    [][\A t \in Threads :
        /\ FailureReturns(t) /\ CallPre(t) = CB_STATE_CLOSED =>
            IF hist'.consec >= FailureThreshold
            THEN cb_state' = CB_STATE_OPEN
            ELSE cb_state' = CB_STATE_CLOSED /\ failure_count' = hist'.consec
        /\ SuccessReturns(t) /\ CallPre(t) = CB_STATE_CLOSED =>
            cb_state' = CB_STATE_CLOSED /\ failure_count' = 0]_vars

\* C2 witness: a run of failure_threshold failures has opened the breaker.
C2_Witness ==
    Quiet /\ cb_state = CB_STATE_OPEN /\ hist.consec = FailureThreshold

\* C3: in open, circuit_breaker_allow returns false and leaves the breaker
\* open while less than timeout_ms has passed since the last failure; called
\* once timeout_ms has passed it moves the breaker to half-open, zeroes both
\* counters and returns true.
C3_OpenUntilTimeout ==
    [][\A t \in Threads :
        AllowReturns(t) /\ CallPre(t) = CB_STATE_OPEN =>
            IF clock - hist.lastFailAt < TimeoutMs
            THEN ~Granted(t) /\ cb_state' = CB_STATE_OPEN
            ELSE /\ Granted(t)
                 /\ cb_state' = CB_STATE_HALF_OPEN
                 /\ failure_count' = 0
                 /\ success_count' = 0]_vars

\* C3 witness: exactly timeout_ms after the last failure an allow call has
\* moved the breaker to half-open and granted the first probe.
C3_Witness ==
    /\ Quiet /\ cb_state = CB_STATE_HALF_OPEN
    /\ clock - hist.lastFailAt = TimeoutMs
    /\ hist.hoSucc = 0 /\ failure_count = 0 /\ success_count = 0
    /\ Cardinality(Probes) = 1

\* C4: a failure recorded while half-open opens the breaker and stamps the
\* time of that failure as the start of the open period; after it no allow
\* call returns true before timeout_ms has passed again.
C4_ProbeFailureReopens ==
    [][\A t \in Threads :
        /\ FailureReturns(t) /\ CallPre(t) = CB_STATE_HALF_OPEN =>
            cb_state' = CB_STATE_OPEN /\ last_failure_time' = clock
        /\ AllowReturns(t) /\ Granted(t) /\ hist.hoFailAt >= 0 =>
            clock - hist.hoFailAt >= TimeoutMs]_vars

\* C4 witness: a probe failed, the breaker re-opened, and only after another
\* timeout_ms a probe was granted again.
C4_Witness ==
    /\ Quiet /\ cb_state = CB_STATE_HALF_OPEN /\ Probes # {}
    /\ hist.hoFailAt >= 0 /\ hist.lastFailAt = hist.hoFailAt
    /\ clock - hist.hoFailAt = TimeoutMs

\* C5: in half-open the breaker closes exactly with the half_open_max_calls-th
\* success recorded since half-open was entered, with both counters zero
\* once that call returns; fewer successes leave it half-open.
C5_ProbesClose ==
    [][/\ \A t \in Threads :
            SuccessReturns(t) /\ CallPre(t) = CB_STATE_HALF_OPEN =>
                IF hist'.hoSucc >= half_open_max_calls
                THEN /\ hist'.hoSucc = half_open_max_calls
                     /\ cb_state' = CB_STATE_CLOSED
                     /\ failure_count' = 0
                     /\ success_count' = 0
                ELSE cb_state' = CB_STATE_HALF_OPEN
       /\ cb_state = CB_STATE_HALF_OPEN /\ cb_state' = CB_STATE_CLOSED =>
            /\ hist.hoSucc + 1 = half_open_max_calls
            /\ \E t \in Threads : pc[t] = "succ_close"]_vars

\* C5 witness: the third probe success has closed the breaker.
C5_Witness ==
    /\ Quiet /\ cb_state = CB_STATE_CLOSED
    /\ hist.hoSucc = half_open_max_calls
    /\ failure_count = 0 /\ success_count = 0

\* C6: the requests permitted in the current half-open period that have not
\* yet recorded an outcome never number more than half_open_max_calls.
C6_ProbesBounded == Cardinality(Probes) <= half_open_max_calls

\* C7: a POST answered with a 4xx status other than 408 and 429 leaves the
\* attached breaker as it was when http_client_post was called: state,
\* failure count, success count and last-failure time.
C7_PermanentUntouched ==
    [][\A t \in Threads :
        /\ PostReturns(t) /\ hist.post.att
        /\ hist.post.res = "CURLE_OK" /\ IsPermanentStatus(hist.post.status)
        => <<cb_state', failure_count', success_count', last_failure_time'>>
                = hist.post.snap]_vars

\* C8: a completed POST with a breaker attached has made exactly one breaker
\* update: circuit_breaker_success for 2xx, circuit_breaker_failure for 408,
\* 429, 5xx, a network error or a timeout; no outcome makes two updates.
C8_OneUpdate ==
    hist.post.done /\ hist.post.att =>
        LET p == hist.post IN
        /\ p.res = "CURLE_OK" /\ p.status >= 200 /\ p.status < 300 =>
                p.ns = 1 /\ p.nf = 0
        /\ \/ p.res # "CURLE_OK"
           \/ p.status \in {408, 429}
           \/ p.status >= 500
           => p.nf = 1 /\ p.ns = 0
        /\ p.ns + p.nf <= 1

\* C8 witness: a POST answered 429 has returned after one failure update.
C8_Witness ==
    /\ Quiet /\ hist.post.done /\ hist.post.att
    /\ hist.post.status = 429 /\ hist.post.nf = 1 /\ hist.post.ns = 0

\* clickhouse_batch_flush, holding rows, gets ETH_ERROR from the INSERT
FlushInsertFails(t) ==
    /\ bpc[t] = "flush_body" /\ bpc'[t] # "flush_body"
    /\ batch_count > 0
    /\ bl'[t].err = "ETH_ERROR"

\* C9: a flush whose INSERT fails preserves the buffer: the row count and
\* the buffered rows are the same after the failed flush as before it.
C9_FailedFlushKeepsRows ==
    [][\A t \in Writers :
        FlushInsertFails(t) =>
            batch_count' = batch_count /\ Buffered' = Buffered]_vars

\* C10: whatever the interleaving of appends and flushes on one batch, the
\* row count never exceeds the capacity, no row is stored at or past
\* items[capacity], and the buffered rows sit in slots of their own.
C10_AppendThreadSafe ==
    /\ ~batch_overflow
    /\ batch_count <= BatchCapacity
    /\ \A i, j \in Slots :
        i < j /\ j < batch_count => batch_items[i] # batch_items[j]

\* an append by t stores its row and returns
AppendStores(t) ==
    /\ bpc[t] \in {"add_check", "add_append"} /\ bpc'[t] = "idle"
    /\ batch_count' = batch_count + 1

\* C11: the flush fires when the buffer reaches capacity, not on a later
\* append: the append that stores the row filling the buffer flushes it, so
\* no append returns leaving capacity rows buffered.
C11_FlushAtCapacity ==
    [][\A t \in Writers : AppendStores(t) => batch_count' < BatchCapacity]_vars

\* C12: destroying a batch is a full flush: once the batch has been freed,
\* every row that was buffered when clickhouse_batch_destroy was called has
\* been accepted by the column store in an INSERT and its memory released.
C12_DestroyIsFullFlush ==
    batch_freed => at_destroy \subseteq store /\ at_destroy \cap heap = {}

\* C13: within the dedup window the ingestor counts at most one publish per
\* identity tuple: a second notification with the same tuple is dropped.
C13_OnePublishPerTuple ==
    \A tup \in Tuples : published_of[tup] <= 1

\* event e was handed to the processor, its fan-out did not complete, the
\* processor is not working on it and no read will hand it out again
EventLost(e) ==
    /\ e \in ev_read
    /\ ev_match[e] < 0
    /\ ~(p_ev = e /\ ppc # "wait")
    /\ e \notin Readable

\* C14: an event consumed but not yet fully fanned out is still
\* unacknowledged: until all its jobs are appended and the analytical append
\* has been called it is either being processed or pending for redelivery,
\* so a crash at that point does not lose it.
C14_UnackedUntilFannedOut ==
    \A e \in Events : ~EventLost(e)

\* C15: every delivery job on the deliveries stream references an event with
\* a row already persisted to the analytical events table.
C15_JobAfterPersistedRow ==
    \A job \in dl_stream : \E r \in store : EventOfRow(r) = job.event

RowsOfEvent(e) == {r \in ev_rows : EventOfRow(r) = e}

JobsOfEvent(e) == {job \in dl_stream : job.event = e}

\* C16: once an event with k matching endpoints has been processed, exactly
\* k analytical rows and exactly k delivery jobs carrying its id have been
\* appended (none when nothing matched).
C16_OneRowOneJobPerEndpoint ==
    \A e \in Events :
        ev_match[e] >= 0 =>
            /\ Cardinality(RowsOfEvent(e)) = ev_match[e]
            /\ Cardinality(JobsOfEvent(e)) = ev_match[e]

\* C17: a job the delivery service has taken off the deliveries stream has
\* exactly one attempt record in the deliveries batch.
C17_AttemptRecorded ==
    \A job \in dl_read : Cardinality({r \in delivery_rows : r = job}) = 1

----------------------------------------------------------------------------
(* The retry schedule *)

\* min(max_delay_ms, base_delay_ms * backoff_multiplier^n)
Schedule(policy, n) ==
    IF policy.base_delay_ms * Pow(policy.backoff_multiplier, n)
           > policy.max_delay_ms
    THEN policy.max_delay_ms
    ELSE policy.base_delay_ms * Pow(policy.backoff_multiplier, n)

\* C19: for every attempt number n >= 0 the delay retry_calculate_delay
\* computes before the jitter equals
\* min(max_delay_ms, base_delay_ms * backoff_multiplier^n): the exponent is
\* the attempt number itself.
C19_ExponentIsAttempt ==
    retry_called => retry_unjittered = Schedule(retry_policy, retry_attempt)

\* C20: for every attempt >= 0, attempt 0 included, the delay before the
\* jitter lies between base_delay_ms and max_delay_ms, and the delay returned
\* after the jitter is never below base_delay_ms.
C20_DelayWithinBounds ==
    retry_called =>
        /\ retry_policy.base_delay_ms <= retry_unjittered
        /\ retry_unjittered <= retry_policy.max_delay_ms
        /\ retry_policy.base_delay_ms <= retry_delay

----------------------------------------------------------------------------
(* The endpoint filter *)

FilterCalled == f_result # "none"

\* C21: an endpoint whose topic filter has more slots than the event has
\* topics does not match the event, whatever the slots are; so an event with
\* no topics matches no endpoint whose filter has a slot.
C21_LongerFilterNoMatch ==
    (FilterCalled /\ Len(f_endpoint.topics) > Len(f_event.topics))
        => f_result = "no_match"

\* the filter [wildcard] meets an event without topics on the endpoint's own
\* chain and address, and topics_match is what rejects it
C21_Witness ==
    /\ f_topics = "no_match"
    /\ f_event.topics = <<>>
    /\ Len(f_endpoint.topics) >= 1
    /\ \A i \in 1..Len(f_endpoint.topics) : IsWildcard(f_endpoint.topics[i])

\* slot i of the filter accepts the event as the claim words it: a wildcard
\* accepts any topic i, another slot only the topic equal to it
SlotAccepts(i) ==
    /\ i <= Len(f_event.topics)
    /\ \/ IsWildcard(f_endpoint.topics[i])
       \/ f_endpoint.topics[i] = f_event.topics[i]

\* C22: topic filters are evaluated slot by slot: a wildcard slot matches any
\* topic at its position, another slot matches only the topic equal to it,
\* topics past the filter's length are ignored, and topics_match accepts iff
\* every slot matches.
C22_PositionalMatch ==
    f_topics # "none" =>
        (f_topics = "match"
            <=> \A i \in 1..Len(f_endpoint.topics) : SlotAccepts(i))

\* C23: an endpoint with no contract address and an empty topic filter
\* matches every event on its chain, whatever the event's address and topics.
C23_EmptyFilterMatchesAll ==
    (/\ FilterCalled
     /\ f_endpoint.address = NULL
     /\ f_endpoint.topics = <<>>
     /\ f_endpoint.chain_id = f_event.chain_id)
        => f_result = "match"

\* such an endpoint has matched an event of another contract whose topic
\* list holds an entry that was not a string
C23_Witness ==
    /\ f_result = "match"
    /\ f_endpoint.address = NULL
    /\ f_endpoint.topics = <<>>
    /\ f_event.contract_address = "0xbb"
    /\ Len(f_event.topics) = MaxTopics
    /\ f_event.topics[1] = NULL

----------------------------------------------------------------------------
(* Reassembly of upstream messages *)

\* C26: a malformed or oversized upstream message is discarded and the
\* ingestor goes on: once a message has ended the reassembly buffer is empty,
\* so every well-formed notification within the buffer limit that has been
\* sent completely has been parsed from its own bytes and counted as
\* received.
C26_DiscardAndContinue ==
    u_kind = "none" => (buffer_len = 0 /\ events_received = u_good)

----------------------------------------------------------------------------
(* Reconnection and shutdown *)

\* min(60 000, reconnect_delay_ms * 2^(k-1))
BackoffWait(k) ==
    IF reconnect_delay_ms * Pow(2, k - 1) > reconnect_delay_limit
    THEN reconnect_delay_limit
    ELSE reconnect_delay_ms * Pow(2, k - 1)

\* C24: the ingestor's reconnect delay starts at reconnect_delay_ms, doubles
\* after each consecutive failed connection attempt and never exceeds
\* 60 000 ms: the wait after the k-th consecutive failure is
\* min(60 000, reconnect_delay_ms * 2^(k-1)) ms.
C24_ReconnectBackoff ==
    w_wait.k >= 1 => w_wait.ms = BackoffWait(w_wait.k)

\* C25: after the upstream stream is closed or a connection error is
\* reported, ws_connection_start returns in the end, so that the worker loop
\* can call it again.
C25_ReconnectAfterDisconnect ==
    (wpc = "service" /\ w_link = "down") ~> (wpc # "service")

\* C27: after SIGINT or SIGTERM each service shuts down in the end: its
\* event loop returns, its workers are joined, its batch writer is flushed
\* and main returns 0.
C27_ShutdownCompletes ==
    /\ ~ing_running ~> (imain = "exited")
    /\ \A s \in Services :
          ~svc_running[s] ~> (spc[s] = "exited" /\ svc_flushed[s])

----------------------------------------------------------------------------
(* The arena *)

\* C28: every non-NULL pointer arena_alloc returns is aligned to 8 bytes,
\* after any sequence of arena_alloc, arena_alloc_aligned, arena_strdup,
\* arena_strndup and arena_reset calls.
C28_AllocAligned ==
    (a_last.op \in {"alloc", "strdup", "strndup"} /\ a_last.ok)
        => a_last.ptr % ARENA_DEFAULT_ALIGN = 0

\* the bytes a call needs, padding included, counted without wrapping
Needed ==
    IF a_last.op = "aligned" /\ IS_POWER_OF_2(a_last.alignment)
    THEN ALIGN_UP(a_last.before.cursor, a_last.alignment)
             - a_last.before.cursor + a_last.size
    ELSE a_last.size

\* C29: arena_alloc and arena_alloc_aligned return NULL whenever the size
\* asked for, plus the alignment padding, exceeds the remaining capacity, for
\* every value of size up to SIZE_MAX; a failed allocation leaves the cursor,
\* the allocation count and the peak usage as they were.
C29_ExhaustedReturnsNull ==
    a_last.op \in {"alloc", "aligned"} =>
        /\ Needed > ArenaEnd - a_last.before.cursor => ~a_last.ok
        /\ ~a_last.ok => Arena = a_last.before

\* C30: after arena_reset bytes_used is 0, the allocation count is 0,
\* bytes_available equals total_capacity and peak_usage keeps its value from
\* before the reset; every allocation that follows returns what it returns
\* on a freshly created arena and leaves the same cursor and count.
C30_ResetIsFresh ==
    a_last.op = "reset" =>
        /\ arena_get_stats(Arena).bytes_used = 0
        /\ arena_get_stats(Arena).num_allocations = 0
        /\ arena_get_stats(Arena).bytes_available
              = arena_get_stats(Arena).total_capacity
        /\ arena_get_stats(Arena).peak_usage = a_last.before.peak
        /\ \A size \in Sizes :
              /\ Alloc(Arena, size).ok = Alloc(FreshArena, size).ok
              /\ Alloc(Arena, size).ptr = Alloc(FreshArena, size).ptr
              /\ Alloc(Arena, size).arena.cursor
                    = Alloc(FreshArena, size).arena.cursor
              /\ Alloc(Arena, size).arena.num
                    = Alloc(FreshArena, size).arena.num
              /\ \A alignment \in Alignments :
                    /\ AllocAligned(Arena, size, alignment).ok
                          = AllocAligned(FreshArena, size, alignment).ok
                    /\ AllocAligned(Arena, size, alignment).ptr
                          = AllocAligned(FreshArena, size, alignment).ptr
                    /\ AllocAligned(Arena, size, alignment).arena.cursor
                          = AllocAligned(FreshArena, size, alignment).arena.cursor

\* an arena that had handed out memory, part of it at an odd address, has
\* been reset
C30_Witness ==
    /\ a_last.op = "reset"
    /\ a_last.before.num = 2
    /\ a_last.before.cursor % ARENA_DEFAULT_ALIGN # 0
    /\ a_last.before.peak > 0
    /\ a_peak = a_last.before.peak

\* C31: arena_alloc_aligned with a power-of-two alignment returns NULL or an
\* address that is a multiple of the alignment with size bytes inside the
\* arena; with another alignment, or size 0, it returns NULL and changes
\* nothing.
C31_AlignedInsideArena ==
    a_last.op = "aligned" =>
        IF a_last.size # 0 /\ IS_POWER_OF_2(a_last.alignment)
        THEN a_last.ok =>
                /\ a_last.ptr % a_last.alignment = 0
                /\ a_last.ptr >= ArenaBase
                /\ a_last.ptr + a_last.size <= ArenaEnd
        ELSE ~a_last.ok /\ Arena = a_last.before

\* C32: arena_can_alloc answers true exactly when arena_alloc of the same
\* size, called next, returns a pointer, for every size, 0 included; it
\* changes nothing in the arena.
C32_CanAllocAgrees ==
    a_last.op = "can_alloc" =>
        /\ a_last.ok <=> Alloc(Arena, a_last.size).ok
        /\ Arena = a_last.before

\* C35: between two resets the regions handed out by successful allocations
\* lie inside [base, base + capacity), are pairwise disjoint and come at
\* strictly increasing addresses.
C35_RegionsDisjoint ==
    /\ \A i \in DOMAIN a_regions :
          /\ a_regions[i].ptr >= ArenaBase
          /\ a_regions[i].ptr + a_regions[i].size <= ArenaEnd
    /\ \A i, j \in DOMAIN a_regions :
          i < j =>
             /\ a_regions[i].ptr < a_regions[j].ptr
             /\ a_regions[i].ptr + a_regions[i].size <= a_regions[j].ptr

\* C36: the statistics always satisfy 0 <= bytes_used <= total_capacity,
\* bytes_used + bytes_available = total_capacity and
\* bytes_used <= peak_usage <= total_capacity; no call lowers peak_usage, and
\* num_allocations is the number of successful allocations since the last
\* reset.
C36_StatsConsistent ==
    LET stats == arena_get_stats(Arena)
    IN  /\ 0 <= stats.bytes_used
        /\ stats.bytes_used <= stats.total_capacity
        /\ stats.bytes_used + stats.bytes_available = stats.total_capacity
        /\ stats.bytes_used <= stats.peak_usage
        /\ stats.peak_usage <= stats.total_capacity
        /\ stats.peak_usage >= a_last.before.peak
        /\ stats.total_capacity = ArenaCapacity
        /\ stats.num_allocations = Len(a_regions)

\* allocations filled the arena, a reset emptied it and one more allocation
\* was made: the peak stands above the bytes in use
C36_Witness ==
    /\ a_last.op \in {"alloc", "aligned", "calloc"}
    /\ a_last.ok
    /\ a_last.before.num = 0
    /\ a_last.before.peak = ArenaCapacity
    /\ a_peak > Usage(a_cursor)
    /\ a_num = 1

----------------------------------------------------------------------------
(* The connection pool *)

\* C33: under any interleaving of clickhouse_query calls no handle is held
\* by two queries at once, a handle is marked in use exactly while a query
\* holds it (so at most pool_size are in use and a query that has returned,
\* with success or an error, has given its handle back), and a query that
\* finds every handle busy returns an error without waiting for one.
C33_PooledHandles ==
    /\ \A h \in Handles :
          /\ Cardinality(Holders(h)) <= 1
          /\ in_use[h] <=> Holders(h) # {}
    /\ Cardinality({h \in Handles : in_use[h]}) <= pool_size
    /\ \A t \in QueryThreads :
          /\ qpc[t] \in {"perform", "release", "store"}
                => q_curl[t] \in q_free[t]
          /\ qpc[t] = "no_handle" => (q_free[t] = {} /\ q_curl[t] = 0)
          /\ qpc[t] = "idle" => q_curl[t] = 0

\* every handle is held by a query in flight, each by another, and a further
\* query has found none free and is about to return the error
C33_Witness ==
    /\ \E t \in QueryThreads : qpc[t] = "no_handle"
    /\ \A h \in Handles : in_use[h]
    /\ \E t \in QueryThreads :
          /\ qpc[t] = "perform"
          /\ \E u \in QueryThreads \ {t} :
                qpc[u] = "perform" /\ q_curl[u] # q_curl[t]

----------------------------------------------------------------------------
(* The breaker under concurrent calls *)

\* C34: under any interleaving of circuit_breaker_allow,
\* circuit_breaker_success and circuit_breaker_failure on one breaker no step
\* takes the state from open to closed: an open breaker leaves that state
\* only through half-open.
C34_OpenNeverCloses ==
    [][cb_state = CB_STATE_OPEN => cb_state' # CB_STATE_CLOSED]_vars

----------------------------------------------------------------------------
(* Address-specific endpoints *)

\* C37: filter_matches accepts an event for an endpoint that names a contract
\* address only if the chain ids are equal and the event's contract address
\* equals the endpoint's, letter case aside; an event with an empty or
\* another address never matches such an endpoint.
C37_AddressMustMatch ==
    (FilterCalled /\ f_endpoint.address # NULL /\ f_result = "match")
        => /\ f_event.chain_id = f_endpoint.chain_id
           /\ Lower(f_event.contract_address) = Lower(f_endpoint.address)

----------------------------------------------------------------------------
(* The matcher *)

\* the stored filter of a row accepts the event, slot by slot
StoredTopicsMatch(row, event) ==
    /\ Len(ParsedTopics(row)) <= Len(event.topics)
    /\ \A i \in 1..Len(ParsedTopics(row)) :
          \/ IsWildcard(ParsedTopics(row)[i])
          \/ Lower(ParsedTopics(row)[i]) = Lower(event.topics[i])

StoredAddressMatches(row, event) ==
    \/ row.address = NULL
    \/ Lower(row.address) = Lower(event.contract_address)

\* the rows the claim names for the event looked up
Matching ==
    {i \in StoredRowIds :
        /\ m_table[i].enabled
        /\ m_table[i].chain_id = m_event.chain_id
        /\ StoredAddressMatches(m_table[i], m_event)
        /\ StoredTopicsMatch(m_table[i], m_event)}

\* C38: matcher_find_endpoints returns exactly the enabled endpoints of the
\* event's chain whose stored address and stored topic filter match the
\* event: never one whose stored filter has a slot that differs from the
\* event's topic at that position or has more slots than the event has
\* topics, and all of the matching ones unless an allocation failed.
C38_ReturnsMatchingEndpoints ==
    m_ret = "ETH_OK" =>
        /\ m_found \subseteq Matching
        /\ m_complete => m_found = Matching

----------------------------------------------------------------------------
(* Creation of the service contexts *)

\* C39: when processor_ctx_create or delivery_ctx_create returns an error,
\* whichever step failed, everything acquired in the earlier steps has been
\* released and *ctx has not been set.
C39_FailedCreateReleasesAll ==
    \A s \in Services :
        (c_pc[s] = "returned" /\ c_ret[s] # "ETH_OK")
            => (c_held[s] = {} /\ ~c_ctx[s])

====
